---- MODULE Spec2Model ----
(***************************************************************************)
(* A model of the hierarchical height-field intersection engine of peaks:  *)
(* construction of the bilinear-patch grid and its maximum mipmap pyramid  *)
(* (HeightMap::new) and the stack-driven traversal (HeightMap::intersects), *)
(* with the tile scheduler that calls it from worker threads (exec.rs) and *)
(* the affine transform of math/transform.rs.                              *)
(*                                                                         *)
(* f64 values are modelled as exact extended rationals <<n, d>> in lowest  *)
(* terms with d >= 0: d > 0 is the finite value n/d, <<1,0>> is +infinity, *)
(* <<-1,0>> is -infinity and <<0,0>> is NaN.  Rounding and the sign of     *)
(* zero are not modelled.  Texture samples (elevations) are integers.      *)
(***************************************************************************)
EXTENDS Integers, Sequences, FiniteSets, TLC

VARIABLES
    raster,     \* the elevation raster handed to HeightMap::new
    transform,  \* [origin x, origin z, pixel width, pixel height]
    hm,         \* the HeightMap, or NoHeightMap before construction
    ray,        \* per caller: the ray it passes to HeightMap::intersects
    stack,      \* per caller: the local work stack of (level, x, y) items
    pc,         \* per caller: Idle, Traversing, LeafResolved, Exhausted
    result,     \* per caller: the value returned by its call
    popped,     \* per caller: the items its call has popped so far, in order
    tiles,      \* RenderState::tiles, the shared TileIterator
    surface,    \* RenderState::surface; a cell holds the values written to it, in order
    work,       \* per worker: the Option<Tile> it holds
    local,      \* per worker: its tile_size x tile_size texture
    handed,     \* the (worker, tile) pairs handed out by tiles.next(), in order
    rendered,   \* per pixel of the image: how often renderer.pixel was called for it
    tileOf,     \* per worker: the tile bound by "while let Some(tile) = work"
    channel,    \* the pixel counts sent by the workers and not yet received
    completed,  \* the sum of the counts the main thread has received
    outputTex,  \* the output texture render_threaded is to fill
    main,       \* the main thread: Receive, Join, Returned
    coords,     \* the (level, x, y) passed to an AffineTransform
    mapped,     \* the values its methods have returned for coords
    quadratic,  \* the (a, b, c) passed to BilinearPatch::solutions
    solved,     \* the Vec it returned, once it has been called
    scene,      \* the objects of a Scene and what their intersects return per sample ray
    colour      \* the sub-colours Renderer::pixel has computed, once it has been called

callVars == <<raster, transform, hm, ray, stack, pc, result, popped>>

renderVars == <<tiles, surface, work, local, handed, rendered, tileOf, channel, completed,
                outputTex, main>>

transformVars == <<coords, mapped>>

\* The arguments and results of the functions that are called on their own.
solveVars == <<quadratic, solved, scene, colour>>

vars == <<raster, transform, hm, ray, stack, pc, result, popped,
          tiles, surface, work, local, handed, rendered, tileOf, channel, completed,
          outputTex, main, coords, mapped, quadratic, solved, scene, colour>>

(***************************************************************************)
(* Bounds of the model.                                                    *)
(***************************************************************************)
\* Elevation samples range over 0..MaxElev (and -1 where negative ground is of interest).
MaxElev == 2
\* Rasters have at most MaxSamples samples (width * height <= MaxSamples).
MaxSamples == 4

(***************************************************************************)
(* Integer helpers.                                                        *)
(***************************************************************************)
Abs(i) == IF i < 0 THEN -i ELSE i

Sgn(i) == IF i > 0 THEN 1 ELSE IF i < 0 THEN -1 ELSE 0

RECURSIVE Gcd(_, _)
Gcd(a, b) == IF b = 0 THEN a ELSE Gcd(b, a % b)

RECURSIVE Pow2(_)
Pow2(e) == IF e = 0 THEN 1 ELSE 2 * Pow2(e - 1)

\* The largest r with r * r <= n, by bisection on lo..hi.
RECURSIVE SqrtBetween(_, _, _)
SqrtBetween(n, lo, hi) ==
    IF lo >= hi THEN lo
    ELSE LET mid == (lo + hi + 1) \div 2
         IN IF mid * mid <= n THEN SqrtBetween(n, mid, hi)
            ELSE SqrtBetween(n, lo, mid - 1)

ISqrt(n) == SqrtBetween(n, 0, IF n < 46340 THEN n ELSE 46340)

IsSquare(n) == n >= 0 /\ ISqrt(n) * ISqrt(n) = n

(***************************************************************************)
(* f64 arithmetic on extended rationals.                                   *)
(***************************************************************************)
Q(n, d) ==
    IF d = 0 THEN <<Sgn(n), 0>>
    ELSE LET g == Gcd(Abs(n), Abs(d))
         IN <<(Sgn(d) * n) \div g, Abs(d) \div g>>

F(i) == <<i, 1>>

NaN == <<0, 0>>

INFINITY == <<1, 0>>

IsNaN(a) == a = NaN

IsFinite(a) == a[2] > 0

FNeg(a) == <<-a[1], a[2]>>

FAdd(a, b) ==
    IF a[2] = 0 /\ b[2] = 0 THEN (IF a[1] = b[1] THEN a ELSE NaN)
    ELSE Q(a[1] * b[2] + b[1] * a[2], a[2] * b[2])

FSub(a, b) == FAdd(a, FNeg(b))

FMul(a, b) == Q(a[1] * b[1], a[2] * b[2])

\* 1.0 / a: a zero divisor gives +infinity (the sign of zero is not modelled).
FInv(a) ==
    IF a[2] = 0 THEN (IF a[1] = 0 THEN NaN ELSE <<0, 1>>)
    ELSE IF a[1] = 0 THEN INFINITY
    ELSE Q(a[2], a[1])

FDiv(a, b) == FMul(a, FInv(b))

FLt(a, b) ==
    /\ ~IsNaN(a)
    /\ ~IsNaN(b)
    /\ IF a[2] = 0 /\ b[2] = 0 THEN a[1] < b[1]
       ELSE a[1] * b[2] < b[1] * a[2]

FLe(a, b) ==
    /\ ~IsNaN(a)
    /\ ~IsNaN(b)
    /\ IF a[2] = 0 /\ b[2] = 0 THEN a[1] <= b[1]
       ELSE a[1] * b[2] <= b[1] * a[2]

FGt(a, b) == FLt(b, a)

FGe(a, b) == FLe(b, a)

FEq(a, b) == ~IsNaN(a) /\ ~IsNaN(b) /\ a = b

\* f64::max and f64::min return the other operand when one is NaN.
FMax(a, b) == IF IsNaN(a) THEN b ELSE IF IsNaN(b) THEN a ELSE IF FLt(a, b) THEN b ELSE a

FMin(a, b) == IF IsNaN(a) THEN b ELSE IF IsNaN(b) THEN a ELSE IF FLt(b, a) THEN b ELSE a

FAbs(a) == <<Abs(a[1]), a[2]>>

\* f64::sqrt, exact on the squares of rationals (the only arguments the model admits).
FSqrt(a) ==
    IF IsNaN(a) \/ a[1] < 0 THEN NaN
    ELSE IF a[2] = 0 THEN a
    ELSE <<ISqrt(a[1]), ISqrt(a[2])>>

HasExactSqrt(a) == a[2] > 0 /\ IsSquare(a[1]) /\ IsSquare(a[2])

(***************************************************************************)
(* Vec3 (src/math/vec3.rs): triples of f64.                                *)
(***************************************************************************)
Vec3(x, y, z) == <<x, y, z>>

VSub(a, b) == <<FSub(a[1], b[1]), FSub(a[2], b[2]), FSub(a[3], b[3])>>

VAdd(a, b) == <<FAdd(a[1], b[1]), FAdd(a[2], b[2]), FAdd(a[3], b[3])>>

VScale(a, s) == <<FMul(a[1], s), FMul(a[2], s), FMul(a[3], s)>>

VDiv(a, b) == <<FDiv(a[1], b[1]), FDiv(a[2], b[2]), FDiv(a[3], b[3])>>

(***************************************************************************)
(* Texture<T> (src/textures.rs): width, height and a row-major buffer.     *)
(* Buffer index i of the code is index i + 1 of the sequence.  An access   *)
(* outside the buffer panics; the ...Ok predicates say when none does.     *)
(***************************************************************************)
blank(width, height, default) ==
    [width |-> width, height |-> height,
     buffer |-> [i \in 1..(width * height) |-> default]]

InBuffer(tex, i) == 0 <= i /\ i < Len(tex.buffer)

write1x1Ok(tex, x, y) == InBuffer(tex, tex.width * y + x)

lookup1x1Ok(tex, x, y) == InBuffer(tex, tex.width * y + x)

lookup1x1(tex, x, y) == tex.buffer[tex.width * y + x + 1]

lookup2x2Ok(tex, x, y) ==
    /\ InBuffer(tex, tex.width * y + x)
    /\ InBuffer(tex, tex.width * y + x + 1)
    /\ InBuffer(tex, tex.width * (y + 1) + x)
    /\ InBuffer(tex, tex.width * (y + 1) + x + 1)

lookup2x2(tex, x, y) ==
    LET i1 == tex.width * y + x
        i2 == tex.width * (y + 1) + x
    IN <<tex.buffer[i1 + 1], tex.buffer[i1 + 2], tex.buffer[i2 + 1], tex.buffer[i2 + 2]>>

\* Texture::bilinear on a texture of integer triples: the default (zero) value
\* outside [0, width - 1) x [0, height - 1), the weighted sum of a 2x2 window inside.
bilinear(tex, x, y) ==
    IF \/ FLt(x, F(0))
       \/ FGe(FAdd(x, F(1)), F(tex.width))
       \/ FLt(y, F(0))
       \/ FGe(FAdd(y, F(1)), F(tex.height))
    THEN Vec3(F(0), F(0), F(0))
    ELSE LET xf == x[1] \div x[2]
             yf == y[1] \div y[2]
             c == lookup2x2(tex, xf, yf)
             tx == FSub(x, F(xf))
             ty == FSub(y, F(yf))
             w == <<FMul(FSub(F(1), tx), FSub(F(1), ty)), FMul(tx, FSub(F(1), ty)),
                    FMul(FSub(F(1), tx), ty), FMul(tx, ty)>>
         IN [k \in 1..3 |->
                FAdd(FAdd(FAdd(FMul(F(c[1][k]), w[1]), FMul(F(c[2][k]), w[2])),
                          FMul(F(c[3][k]), w[3])),
                     FMul(F(c[4][k]), w[4]))]

\* Whether Texture::bilinear on a normal map returns a vector of length 1.  A cell
\* written by normals holds Vec3::normalize of the cross product kept here, a unit
\* vector; the other cells hold the default <<0, 0, 0>>.  Outside the window range the
\* sample is the default; inside, it is a convex combination of four cells, which has
\* length 1 exactly when all cells of non-zero weight hold the same unit vector (the
\* cross products of one map share their y component, so they are parallel only when
\* they are equal).
bilinearIsUnit(tex, x, y) ==
    IF \/ FLt(x, F(0))
       \/ FGe(FAdd(x, F(1)), F(tex.width))
       \/ FLt(y, F(0))
       \/ FGe(FAdd(y, F(1)), F(tex.height))
    THEN FALSE
    ELSE LET xf == x[1] \div x[2]
             yf == y[1] \div y[2]
             c == lookup2x2(tex, xf, yf)
             tx == FSub(x, F(xf))
             ty == FSub(y, F(yf))
             w == <<FMul(FSub(F(1), tx), FSub(F(1), ty)), FMul(tx, FSub(F(1), ty)),
                    FMul(FSub(F(1), tx), ty), FMul(tx, ty)>>
             used == {k \in 1..4 : w[k] # F(0)}
         IN \A k \in used : c[k] # <<0, 0, 0>> /\ \A n \in used : c[n] = c[k]

\* f64::max on (finite) elevation samples.
max(a, b) == IF a >= b THEN a ELSE b

\* The buffer of tex after write1x1(x, y, val[x, y]) for y in 0..h-1, x in 0..w-1,
\* in that order: each index keeps the value of the last write that reached it.
WriteCells(tex, w, h, val) ==
    [tex EXCEPT !.buffer =
        [i \in 1..Len(tex.buffer) |->
            LET ys == {y \in 0..(h - 1) : 0 <= i - 1 - tex.width * y /\ i - 1 - tex.width * y < w}
                ws == {<<i - 1 - tex.width * y, y>> : y \in ys}
            IN IF ws = {} THEN tex.buffer[i]
               ELSE LET last == CHOOSE c \in ws : \A d \in ws :
                                    d[2] < c[2] \/ (d[2] = c[2] /\ d[1] <= c[1])
                    IN val[last[1], last[2]]]]

(***************************************************************************)
(* src/ops.rs                                                              *)
(***************************************************************************)
\* blit: every copied row must lie inside both buffers (slice bounds).
blitOk(input, output, x, y) ==
    \A src_y \in 0..(input.height - 1) :
        /\ output.width * (src_y + y) + x + input.width <= Len(output.buffer)
        /\ input.width * src_y + input.width <= Len(input.buffer)

\* A plausible slip: the destination row located with the input's width as stride.
blitInputStride(input, output, x, y) ==
    LET row_len == input.width
        dest_offset(src_y) == input.width * (src_y + y) + x
        rows(i) == {src_y \in 0..(input.height - 1) :
                        dest_offset(src_y) <= i /\ i < dest_offset(src_y) + row_len}
        lastRow(i) == CHOOSE r \in rows(i) : \A q \in rows(i) : q <= r
    IN [output EXCEPT !.buffer =
            [i \in 1..Len(output.buffer) |->
                IF rows(i - 1) = {} THEN output.buffer[i]
                ELSE input.buffer[input.width * lastRow(i - 1)
                                  + (i - 1 - dest_offset(lastRow(i - 1))) + 1]]]

blit(input, output, x, y) ==
    LET row_len == input.width
        dest_offset(src_y) == output.width * (src_y + y) + x
        rows(i) == {src_y \in 0..(input.height - 1) :
                        dest_offset(src_y) <= i /\ i < dest_offset(src_y) + row_len}
        lastRow(i) == CHOOSE r \in rows(i) : \A q \in rows(i) : q <= r
    IN [output EXCEPT !.buffer =
            [i \in 1..Len(output.buffer) |->
                IF rows(i - 1) = {} THEN output.buffer[i]
                ELSE input.buffer[input.width * lastRow(i - 1)
                                  + (i - 1 - dest_offset(lastRow(i - 1))) + 1]]]

\* normals: the normal of each 2x2 window, stored before normalisation as the
\* cross product (sw - ne) x (ne - nw); <<0,0,0>> is the default (unwritten) value.
normalsOk(input, output) ==
    \A y \in 0..(output.height - 2), x \in 0..(output.width - 2) :
        lookup2x2Ok(input, x, y) /\ write1x1Ok(output, x, y)

normals(input, output, pixel_width, pixel_height) ==
    LET normal == [x \in 0..(output.width - 2), y \in 0..(output.height - 2) |->
            LET w == lookup2x2(input, x, y)
                nw == w[1]
                ne == w[2]
                sw == w[3]
            IN <<-(pixel_height * (ne - nw)), pixel_height * pixel_width,
                 -(pixel_width * (sw - nw))>>]
    IN WriteCells(output, output.width - 1, output.height - 1, normal)

height_map_to_bilinear_patchOk(input, level0, level1) ==
    /\ level0.width = level1.width
    /\ level0.height = level1.height
    /\ input.width - 1 = level0.width
    /\ input.height - 1 = level0.height
    /\ \A y \in 0..(level0.height - 1), x \in 0..(level0.width - 1) :
            /\ lookup2x2Ok(input, x, y)
            /\ write1x1Ok(level0, x, y)
            /\ write1x1Ok(level1, x, y)

\* A plausible slip: the patch written in the order it was read (nw, ne, sw, se).
PatchAtZOrder(input, x, y) == lookup2x2(input, x, y)

\* Reads [nw, ne, sw, se] and writes the patch as [nw, ne, se, sw].
PatchAt(input, x, y) ==
    LET w == lookup2x2(input, x, y)
    IN <<w[1], w[2], w[4], w[3]>>

\* A plausible slip: the north-west corner left out of the maximum.
PatchMaxWithoutNw(input, x, y) ==
    LET p == PatchAt(input, x, y)
    IN max(max(p[2], p[3]), p[4])

\* nw.max(ne).max(se).max(sw)
PatchMax(input, x, y) ==
    LET p == PatchAt(input, x, y)
    IN max(max(max(p[1], p[2]), p[3]), p[4])

height_map_to_bilinear_patch(input, level0, level1) ==
    LET patch == [x \in 0..(level0.width - 1), y \in 0..(level0.height - 1) |->
                        PatchAt(input, x, y)]
        top == [x \in 0..(level0.width - 1), y \in 0..(level0.height - 1) |->
                        PatchMax(input, x, y)]
    IN [level0 |-> WriteCells(level0, level0.width, level0.height, patch),
        level1 |-> WriteCells(level1, level0.width, level0.height, top)]

maximum_mipmap_bilinear_patchOk(input, output) ==
    /\ input.width \div 2 = output.width
    /\ input.height \div 2 = output.height
    /\ \A y \in 0..(output.height - 1), x \in 0..(output.width - 1) :
            lookup2x2Ok(input, x * 2, y * 2) /\ write1x1Ok(output, x, y)

\* A plausible slip: a running maximum that is not reset between cells, so a cell
\* also covers every input cell above and to the left of its block.
BlockMaxRunning(input, x, y) ==
    LET seen == {lookup1x1(input, i, j) : i \in 0..(2 * x + 1), j \in 0..(2 * y + 1)}
    IN CHOOSE m \in seen : \A v \in seen : v <= m

\* A plausible slip: the block read as 2x1, its lower row left out.
BlockMaxUpperRow(input, x, y) ==
    LET p == lookup2x2(input, x * 2, y * 2)
    IN max(p[1], p[2])

\* p1.max(p2).max(p3).max(p4)
BlockMax(input, x, y) ==
    LET p == lookup2x2(input, x * 2, y * 2)
    IN max(max(max(p[1], p[2]), p[3]), p[4])

maximum_mipmap_bilinear_patch(input, output) ==
    LET top == [x \in 0..(output.width - 1), y \in 0..(output.height - 1) |->
                        BlockMax(input, x, y)]
    IN WriteCells(output, output.width, output.height, top)

(***************************************************************************)
(* src/math.rs                                                             *)
(***************************************************************************)
\* ceil(log2(num)) for num >= 1: the least exponent e with 2^e >= num.
RECURSIVE CeilLog2From(_, _)
CeilLog2From(num, e) == IF Pow2(e) >= num THEN e ELSE CeilLog2From(num, e + 1)

\* A plausible slip: the exponent rounded down (floor) instead of up.
floor_pow2(num) ==
    LET e == CeilLog2From(num, 0)
    IN IF Pow2(e) = num THEN num ELSE Pow2(e - 1)

ceil_pow2(num) == Pow2(CeilLog2From(num, 0))

(***************************************************************************)
(* HeightMap::new (src/primitives/height_map.rs)                           *)
(***************************************************************************)
NoHeightMap == [ok |-> FALSE, built |-> FALSE]

\* A plausible slip: the padded copy allocated without the extra row and column.
UnpaddedSide(size) == size

\* The side of the padded copy of the raster: Texture::blank(size + 1, size + 1).
PaddedSide(size) == size + 1

\* The outcome of a construction that panicked (index out of range, failed assertion).
Panicked == [ok |-> FALSE, built |-> TRUE]

\* A plausible slip: the halving loop stopped one level early (while size > 2).
RECURSIVE MipmapLoopToTwo(_, _)
MipmapLoopToTwo(size, maximum_mipmaps) ==
    IF size > 2
    THEN LET size2 == size \div 2
             next == blank(size2, size2, 0)
             previous == maximum_mipmaps[Len(maximum_mipmaps)]
         IN IF maximum_mipmap_bilinear_patchOk(previous, next)
            THEN MipmapLoopToTwo(size2, Append(maximum_mipmaps,
                                               maximum_mipmap_bilinear_patch(previous, next)))
            ELSE <<>>
    ELSE maximum_mipmaps

\* while size > 1 { size /= 2; next = blank(size, size); ...; push(next) }
RECURSIVE MipmapLoop(_, _)
MipmapLoop(size, maximum_mipmaps) ==
    IF size > 1
    THEN LET size2 == size \div 2
             next == blank(size2, size2, 0)
             previous == maximum_mipmaps[Len(maximum_mipmaps)]
         IN IF maximum_mipmap_bilinear_patchOk(previous, next)
            THEN MipmapLoop(size2, Append(maximum_mipmaps,
                                          maximum_mipmap_bilinear_patch(previous, next)))
            ELSE <<>>
    ELSE maximum_mipmaps

HeightMapNew(tr, height_map) ==
    LET normal_map0 == blank(height_map.width, height_map.height, <<0, 0, 0>>)
        height_map_size == max(height_map.width, height_map.height)
        size == ceil_pow2(height_map_size)
        height_map2_0 == blank(PaddedSide(size), PaddedSide(size), 0)
        patches0 == blank(size, size, <<0, 0, 0, 0>>)
        mipmap0 == blank(size, size, 0)
    IN IF ~normalsOk(height_map, normal_map0) \/ ~blitOk(height_map, height_map2_0, 0, 0)
       THEN Panicked
       ELSE LET height_map2 == blit(height_map, height_map2_0, 0, 0)
            IN IF ~height_map_to_bilinear_patchOk(height_map2, patches0, mipmap0)
               THEN Panicked
               ELSE LET lv == height_map_to_bilinear_patch(height_map2, patches0, mipmap0)
                        mips == MipmapLoop(size, <<lv.level1>>)
                    IN IF mips = <<>> THEN Panicked
                       ELSE [ok |-> TRUE, built |-> TRUE,
                             transform |-> tr,
                             normal_map |-> normals(height_map, normal_map0, tr[3], tr[4]),
                             bilinear_patches |-> lv.level0,
                             maximum_mipmaps |-> mips]

(***************************************************************************)
(* Intersection (src/primitives/primitive.rs): only t is modelled.         *)
(***************************************************************************)
None == [some |-> FALSE]

Some(t) == [some |-> TRUE, t |-> t]

\* Some(Intersection::new(t, normal))
SomeIntersection(t, normal) == [some |-> TRUE, t |-> t, normal |-> normal]

\* Intersection::to_option: the sentinel t = INFINITY stands for no intersection.
to_option(t) == IF t = INFINITY THEN None ELSE Some(t)

(***************************************************************************)
(* Aabb::intersects (src/primitives/aabb.rs): the slab test.               *)
(***************************************************************************)
\* A plausible slip: the entry distance is returned even when it is negative.
AabbIntersectsEntryOnly(bmin, bmax, r) ==
    LET bounds == <<bmin, bmax>>
        inverse_dir == <<FInv(r.direction[1]), FInv(r.direction[2]), FInv(r.direction[3])>>
        sign == [k \in 1..3 |-> IF FLt(inverse_dir[k], F(0)) THEN 1 ELSE 0]
        tnear == [k \in 1..3 |->
                    FMul(FSub(bounds[sign[k] + 1][k], r.origin[k]), inverse_dir[k])]
        tfar == [k \in 1..3 |->
                    FMul(FSub(bounds[2 - sign[k]][k], r.origin[k]), inverse_dir[k])]
        tmin == FMax(FMax(FMax(tnear[1], FNeg(INFINITY)), tnear[2]), tnear[3])
        tmax == FMin(FMin(FMin(tfar[1], INFINITY), tfar[2]), tfar[3])
    IN IF FGt(tmin, tmax) THEN None ELSE Some(tmin)

AabbIntersects(bmin, bmax, r) ==
    LET bounds == <<bmin, bmax>>
        inverse_dir == <<FInv(r.direction[1]), FInv(r.direction[2]), FInv(r.direction[3])>>
        sign == [k \in 1..3 |-> IF FLt(inverse_dir[k], F(0)) THEN 1 ELSE 0]
        tnear == [k \in 1..3 |->
                    FMul(FSub(bounds[sign[k] + 1][k], r.origin[k]), inverse_dir[k])]
        tfar == [k \in 1..3 |->
                    FMul(FSub(bounds[2 - sign[k]][k], r.origin[k]), inverse_dir[k])]
        tmin == FMax(FMax(FMax(tnear[1], FNeg(INFINITY)), tnear[2]), tnear[3])
        tmax == FMin(FMin(FMin(tfar[1], INFINITY), tfar[2]), tfar[3])
    IN IF FGt(tmin, tmax) THEN None
       ELSE Some(IF FLt(tmin, F(0)) THEN tmax ELSE tmin)

(***************************************************************************)
(* BilinearPatch (src/primitives/bilinear_patch.rs).                       *)
(***************************************************************************)
\* BilinearPatch::new takes the corners in (nw, ne, se, sw) order.
BilinearPatchNew(p01, p11, p10, p00) == [p00 |-> p00, p01 |-> p01, p10 |-> p10, p11 |-> p11]

Variables(patch, r) ==
    LET a == VAdd(VSub(VSub(patch.p11, patch.p10), patch.p01), patch.p00)
        b == VSub(patch.p10, patch.p00)
        c == VSub(patch.p01, patch.p00)
        d == VSub(patch.p00, r.origin)
        dir == r.direction
        xz(w) == FSub(FMul(w[1], dir[3]), FMul(w[3], dir[1]))
        yz(w) == FSub(FMul(w[2], dir[3]), FMul(w[3], dir[2]))
    IN [a1 |-> xz(a), a2 |-> yz(a), b1 |-> xz(b), b2 |-> yz(b),
        c1 |-> xz(c), c2 |-> yz(c), d1 |-> xz(d), d2 |-> yz(d)]

\* The coefficients (a, b, c) of the quadratic in v.
Quadratic(vs) ==
    <<FSub(FMul(vs.a2, vs.c1), FMul(vs.a1, vs.c2)),
      FSub(FAdd(FSub(FMul(vs.a2, vs.d1), FMul(vs.a1, vs.d2)), FMul(vs.b2, vs.c1)),
           FMul(vs.b1, vs.c2)),
      FSub(FMul(vs.b2, vs.d1), FMul(vs.b1, vs.d2))>>

Discriminant(a, b, c) == FSub(FMul(b, b), FMul(FMul(F(4), a), c))

compute_u(v, vs) ==
    LET denom1 == FSub(FAdd(FMul(v, FSub(vs.a2, vs.a1)), vs.b2), vs.b1)
        denom2 == FAdd(FMul(v, vs.a2), vs.b2)
    IN IF FGt(FAbs(denom1), FAbs(denom2))
       THEN FDiv(FSub(FAdd(FMul(v, FSub(vs.c1, vs.c2)), vs.d1), vs.d2), denom1)
       ELSE FDiv(FNeg(FAdd(FMul(v, vs.c2), vs.d2)), denom2)

compute_t(r, pos) ==
    LET ts == VDiv(VSub(pos, r.origin), r.direction)
    IN FMin(FMin(ts[1], ts[2]), ts[3])

position(patch, u, v) ==
    LET one == F(1)
        w00 == FMul(FSub(one, u), FSub(one, v))
        w01 == FMul(FSub(one, u), v)
        w10 == FMul(u, FSub(one, v))
        w11 == FMul(u, v)
    IN [k \in 1..3 |->
            FAdd(FAdd(FAdd(FMul(w00, patch.p00[k]), FMul(w01, patch.p01[k])),
                      FMul(w10, patch.p10[k])),
                 FMul(w11, patch.p11[k]))]

tan_u(patch, v) ==
    [k \in 1..3 |->
        FAdd(FMul(FSub(F(1), v), FSub(patch.p10[k], patch.p00[k])),
             FMul(v, FSub(patch.p11[k], patch.p01[k])))]

tan_v(patch, u) ==
    [k \in 1..3 |->
        FAdd(FMul(FSub(F(1), u), FSub(patch.p01[k], patch.p00[k])),
             FMul(u, FSub(patch.p11[k], patch.p10[k])))]

cross(a, b) ==
    Vec3(FSub(FMul(a[2], b[3]), FMul(a[3], b[2])),
         FSub(FMul(a[3], b[1]), FMul(a[1], b[3])),
         FSub(FMul(a[1], b[2]), FMul(a[2], b[1])))

\* BilinearPatch::normal before Vec3::normalize: the cross product of the tangents,
\* which normalize scales by a positive factor (or leaves at zero).
normal(patch, u, v) == cross(tan_u(patch, v), tan_v(patch, u))

\* A plausible slip: the linear root with the wrong sign.
solutionsLinearSign(a, b, c) ==
    IF a = F(0) /\ b # F(0) THEN <<FDiv(c, b)>>
    ELSE IF a = F(0) THEN <<>>
    ELSE LET d == Discriminant(a, b, c)
         IN IF d = F(0) THEN <<FDiv(FNeg(b), a)>>
            ELSE IF FLt(d, F(0)) THEN <<>>
            ELSE LET b_sign == IF FLt(b, F(0)) THEN F(-1) ELSE F(1)
                     q == FMul(Q(-1, 2), FAdd(b, FMul(FSqrt(d), b_sign)))
                 IN <<FDiv(c, q), FDiv(q, a)>>

solutions(a, b, c) ==
    IF a = F(0) /\ b # F(0) THEN <<FDiv(FNeg(c), b)>>
    ELSE IF a = F(0) THEN <<>>
    ELSE LET d == Discriminant(a, b, c)
         IN IF d = F(0) THEN <<FDiv(FNeg(b), a)>>
            ELSE IF FLt(d, F(0)) THEN <<>>
            ELSE LET b_sign == IF FLt(b, F(0)) THEN F(-1) ELSE F(1)
                     q == FMul(Q(-1, 2), FAdd(b, FMul(FSqrt(d), b_sign)))
                 IN <<FDiv(c, q), FDiv(q, a)>>

solve(patch, r, v, vs) ==
    LET u == compute_u(v, vs)
        p == position(patch, u, v)
        t == compute_t(r, p)
    IN IF FGt(t, F(0)) /\ FLe(u, F(1)) /\ FGe(u, F(0)) THEN Some(t) ELSE None

\* A plausible slip: the first candidate that passes is kept, whatever its t.
RECURSIVE ClosestFirst(_, _, _, _, _, _)
ClosestFirst(patch, r, vs, roots, i, closest) ==
    IF i > Len(roots) THEN closest
    ELSE LET v == roots[i]
             current == IF FGe(v, F(0)) /\ FLe(v, F(1)) THEN solve(patch, r, v, vs) ELSE None
         IN ClosestFirst(patch, r, vs, roots, i + 1,
                         IF current.some /\ closest = INFINITY THEN current.t ELSE closest)

\* The fold over the candidates, starting from Intersection::none().
RECURSIVE Closest(_, _, _, _, _, _)
Closest(patch, r, vs, roots, i, closest) ==
    IF i > Len(roots) THEN closest
    ELSE LET v == roots[i]
             current == IF FGe(v, F(0)) /\ FLe(v, F(1)) THEN solve(patch, r, v, vs) ELSE None
         IN Closest(patch, r, vs, roots, i + 1,
                    IF current.some /\ FLt(current.t, closest) THEN current.t ELSE closest)

BilinearPatchIntersects(patch, r) ==
    LET vs == Variables(patch, r)
        q == Quadratic(vs)
    IN to_option(Closest(patch, r, vs, solutions(q[1], q[2], q[3]), 1, INFINITY))

\* The model follows f64::sqrt only where the root is rational.
PatchRepresentable(patch, r) ==
    LET q == Quadratic(Variables(patch, r))
        d == Discriminant(q[1], q[2], q[3])
    IN q[1] = F(0) \/ ~FGt(d, F(0)) \/ HasExactSqrt(d)

(***************************************************************************)
(* HeightMap::intersects (src/primitives/height_map.rs).                   *)
(* A work item is <<level, x, y>>; the stack grows at its end.             *)
(***************************************************************************)
world_to_raster(h, x, y) ==
    <<FDiv(FSub(x, F(h.transform[1])), F(h.transform[3])),
      FDiv(FSub(y, F(h.transform[2])), F(h.transform[4]))>>

raster_to_world(h, level, x, y) ==
    LET width == FMul(F(h.transform[3]), F(Pow2(level)))
        depth == FMul(F(h.transform[4]), F(Pow2(level)))
    IN <<FAdd(F(h.transform[1]), FMul(x, width)), FAdd(F(h.transform[2]), FMul(y, depth))>>

\* A plausible slip: the box of a cell is as high as the north-west corner of its
\* first patch, not as the maximum stored in the mipmap.
CellAabbNwCorner(h, item) ==
    LET lo == raster_to_world(h, item[1], F(item[2]), F(item[3]))
        hi == raster_to_world(h, item[1], F(item[2] + 1), F(item[3] + 1))
        corner == lookup1x1(h.bilinear_patches, item[2] * Pow2(item[1]),
                            item[3] * Pow2(item[1]))[1]
    IN [min |-> Vec3(lo[1], F(0), lo[2]),
        max |-> Vec3(hi[1], F(corner), hi[2])]

\* The bounding box of a cell: its footprint and the heights [0, mipmap value].
CellAabb(h, item) ==
    LET mipmap == h.maximum_mipmaps[item[1] + 1]
        lo == raster_to_world(h, item[1], F(item[2]), F(item[3]))
        hi == raster_to_world(h, item[1], F(item[2] + 1), F(item[3] + 1))
    IN [min |-> Vec3(lo[1], F(0), lo[2]),
        max |-> Vec3(hi[1], F(lookup1x1(mipmap, item[2], item[3])), hi[2])]

\* The bilinear patch of a level-0 cell.
CellPatch(h, item) ==
    LET c == lookup1x1(h.bilinear_patches, item[2], item[3])
        lo == raster_to_world(h, 0, F(item[2]), F(item[3]))
        hi == raster_to_world(h, 0, F(item[2] + 1), F(item[3] + 1))
        nw == Vec3(lo[1], F(c[1]), lo[2])
        ne == Vec3(hi[1], F(c[2]), lo[2])
        se == Vec3(hi[1], F(c[3]), hi[2])
        sw == Vec3(lo[1], F(c[4]), hi[2])
    IN BilinearPatchNew(nw, ne, se, sw)

\* The square of Vec3::distance between the centre of a cell and the ray origin,
\* both flattened to y = 0 (sqrt is monotonic, so the squares compare alike).
flat_dist2(h, r, item) ==
    LET c == raster_to_world(h, item[1], FAdd(F(item[2]), Q(1, 2)), FAdd(F(item[3]), Q(1, 2)))
        dx == FSub(r.origin[1], c[1])
        dz == FSub(r.origin[3], c[2])
    IN FAdd(FMul(dx, dx), FMul(dz, dz))

\* A plausible slip: the comparison the other way round (farthest popped first).
flat_dist_comp_nearer(h, r, a, b) == FLt(flat_dist2(h, r, a), flat_dist2(h, r, b))

\* flat_dist_comp(a, b) == Ordering::Less: a is farther from the ray origin than b.
flat_dist_comp_less(h, r, a, b) == FGt(flat_dist2(h, r, a), flat_dist2(h, r, b))

\* slice::sort_by on a short slice: insertion sort from the back, which uses the
\* comparator only through "compare(a, b) == Less".
RECURSIVE ShiftEnd(_, _, _, _, _)
ShiftEnd(h, r, v, tmp, i) ==
    IF i <= Len(v) /\ flat_dist_comp_less(h, r, v[i], tmp)
    THEN ShiftEnd(h, r, v, tmp, i + 1)
    ELSE i - 1

insert_head(h, r, v) ==
    IF Len(v) >= 2 /\ flat_dist_comp_less(h, r, v[2], v[1])
    THEN LET hole == ShiftEnd(h, r, v, v[1], 3)
         IN SubSeq(v, 2, hole) \o <<v[1]>> \o SubSeq(v, hole + 1, Len(v))
    ELSE v

RECURSIVE SortFrom(_, _, _, _)
SortFrom(h, r, v, i) ==
    IF i < 1 THEN v
    ELSE SortFrom(h, r, SubSeq(v, 1, i - 1) \o insert_head(h, r, SubSeq(v, i, Len(v))), i - 1)

\* A plausible slip: the children appended in the order they were built.
unsorted(h, r, v) == v

sort_by(h, r, v) == SortFrom(h, r, v, Len(v) - 1)

\* A plausible slip: the coordinates of the children are not doubled.
ChildrenNotDoubled(item) ==
    LET level == item[1]
        cx == item[2]
        cy == item[3]
    IN <<<<level - 1, cx, cy>>, <<level - 1, cx + 1, cy>>,
         <<level - 1, cx, cy + 1>>, <<level - 1, cx + 1, cy + 1>>>>

Children(item) ==
    LET level == item[1]
        cx == item[2] * 2
        cy == item[3] * 2
    IN <<<<level - 1, cx, cy>>, <<level - 1, cx + 1, cy>>,
         <<level - 1, cx, cy + 1>>, <<level - 1, cx + 1, cy + 1>>>>

\* vec![(self.maximum_mipmaps.len() - 1, 0, 0)]
InitialStack(h) == <<<<Len(h.maximum_mipmaps) - 1, 0, 0>>>>

\* The value returned for a patch hit at t: t itself and the normal map sampled
\* at the hit point.
LeafIntersection(h, r, t) ==
    LET point == VAdd(r.origin, VScale(r.direction, t))
        xy == world_to_raster(h, point[1], point[3])
    IN SomeIntersection(t, bilinear(h.normal_map, xy[1], xy[2]))

\* A plausible slip: a leaf whose patch is missed ends the call with None.
LeafOutcomeReturningNone(h, r, s, rest) ==
    IF s.some
    THEN [kind |-> "LeafHit", pc |-> "LeafResolved",
          result |-> LeafIntersection(h, r, s.t), stack |-> rest]
    ELSE [kind |-> "LeafMiss", pc |-> "Exhausted", result |-> None, stack |-> rest]

\* match patch.intersects(ray) { Some(..) => return Some(..), _ => continue }
LeafOutcome(h, r, s, rest) ==
    IF s.some
    THEN [kind |-> "LeafHit", pc |-> "LeafResolved",
          result |-> LeafIntersection(h, r, s.t), stack |-> rest]
    ELSE [kind |-> "LeafMiss", pc |-> "Traversing", result |-> None, stack |-> rest]

\* A plausible slip: reading the last item without removing it.
peek(stk) == [item |-> stk[Len(stk)], rest |-> stk]

\* Vec::pop on a non-empty stack: the last item, and the stack without it.
pop(stk) == [item |-> stk[Len(stk)], rest |-> SubSeq(stk, 1, Len(stk) - 1)]

\* A plausible slip: a box behind the ray (hit with t < 0) is let through.
AabbPassesBehind(h, r, item) ==
    LET box == CellAabb(h, item)
        hit == AabbIntersects(box.min, box.max, r)
    IN hit.some

\* Whether the box test lets the cell through: a hit with t >= 0.
AabbPasses(h, r, item) ==
    LET box == CellAabb(h, item)
        hit == AabbIntersects(box.min, box.max, r)
    IN hit.some /\ ~FLt(hit.t, F(0))

\* One iteration of "while let Some((level, x, y)) = stack.pop()", or the exit of
\* the loop when the stack is empty.
LoopIteration(h, r, stk) ==
    IF stk = <<>>
    THEN [kind |-> "Exhaust", pc |-> "Exhausted", result |-> None, stack |-> <<>>]
    ELSE LET item == pop(stk).item
             rest == pop(stk).rest
         IN IF ~AabbPasses(h, r, item)
            THEN [kind |-> "Prune", pc |-> "Traversing", result |-> None, stack |-> rest]
            ELSE IF item[1] = 0
            THEN LeafOutcome(h, r, BilinearPatchIntersects(CellPatch(h, item), r), rest)
            ELSE [kind |-> "Descend", pc |-> "Traversing", result |-> None,
                  stack |-> rest \o sort_by(h, r, Children(item))]

\* The number of cells of a pyramid with top index k: (4^(k+1) - 1) / 3.
NodeCount(h) == (Pow2(2 * Len(h.maximum_mipmaps)) - 1) \div 3

\* All level-0 cells.
Leaves(h) ==
    {<<0, x, y>> : x \in 0..(h.bilinear_patches.width - 1),
                   y \in 0..(h.bilinear_patches.height - 1)}

\* The model follows the code on the rays whose patch solves stay rational.  The
\* quadratic of a cell with nw + se = ne + sw is linear and needs no square root.
Representable(h, r) ==
    \A leaf \in Leaves(h) :
        LET c == lookup1x1(h.bilinear_patches, leaf[2], leaf[3])
        IN c[1] + c[3] = c[2] + c[4] \/ PatchRepresentable(CellPatch(h, leaf), r)

(***************************************************************************)
(* Inputs.                                                                 *)
(***************************************************************************)
RasterSizes == {s \in (1..MaxSamples) \X (1..MaxSamples) : s[1] * s[2] <= MaxSamples}

RastersOver(elevations) ==
    UNION {{[width |-> s[1], height |-> s[2], buffer |-> b] :
                b \in [1..(s[1] * s[2]) -> elevations]} : s \in RasterSizes}

\* Construction is exercised on rasters that may dip below the ground plane.
BuildRasters == RastersOver((-1)..MaxElev)

Transforms == {<<0, 0, 1, 1>>, <<-2, -1, 2, 1>>}

NoCalls == <<>>

\* No render is under way and no transform is being applied.
NoRender ==
    /\ tiles = <<>>
    /\ surface = <<>>
    /\ work = <<>>
    /\ local = <<>>
    /\ handed = <<>>
    /\ rendered = <<>>
    /\ tileOf = <<>>
    /\ channel = <<>>
    /\ completed = 0
    /\ outputTex = <<>>
    /\ main = "Idle"

NoTransform ==
    /\ coords = <<>>
    /\ mapped = <<>>

\* Neither BilinearPatch::solutions nor Renderer::pixel is being called.
NoSolve ==
    /\ quadratic = <<>>
    /\ solved = <<>>
    /\ scene = <<>>
    /\ colour = <<>>

InitBuild ==
    /\ raster \in BuildRasters
    /\ transform \in Transforms
    /\ hm = NoHeightMap
    /\ ray = NoCalls
    /\ stack = NoCalls
    /\ pc = NoCalls
    /\ result = NoCalls
    /\ popped = NoCalls
    /\ NoRender
    /\ NoTransform
    /\ NoSolve

\* HeightMap::new(transform, &raster)
New ==
    /\ ~hm.built
    /\ hm' = HeightMapNew(transform, raster)
    /\ UNCHANGED <<raster, transform, ray, stack, pc, result, popped>>
    /\ UNCHANGED <<renderVars, transformVars, solveVars>>

SpecBuild == InitBuild /\ [][New]_vars

\* Traversal is exercised on terrains that stay on or above the ground plane.
TraversalRasters ==
    {r \in RastersOver({0, MaxElev}) : r.width < MaxSamples /\ r.height < MaxSamples}

RayOrigins ==
    {Vec3(x, y, z) : x \in {Q(-3, 2), Q(1, 2), Q(5, 2)}, y \in {Q(1, 2), F(3)},
                     z \in {Q(-3, 2), Q(1, 2), Q(3, 2)}}

RayDirections ==
    {Vec3(F(d[1]), F(d[2]), F(d[3])) :
        d \in {<<0, -1, 0>>, <<0, -1, 1>>, <<1, -1, 0>>, <<1, -1, 1>>, <<-1, -1, -1>>,
                <<1, -2, 2>>, <<2, -1, 1>>, <<1, 0, 1>>, <<-1, -2, 1>>, <<1, -1, -1>>,
                <<0, 0, 1>>, <<-1, 1, -1>>}}

Rays == {[origin |-> o, direction |-> d] : o \in RayOrigins, d \in RayDirections}

Terminal == {"LeafResolved", "Exhausted"}

\* "let mut stack" is a local of the call: each caller has a stack of its own.
SharedStack(c) == 1

StackOf(c) == c

\* A call that kept state in the height map: it lowers the top of the pyramid.
LoweredTop(h) ==
    [h EXCEPT !.maximum_mipmaps[Len(h.maximum_mipmaps)].buffer = <<0>>]

\* intersects borrows the height map as &self: it reads it and leaves it as it is.
Borrowed(h) == h

InitCallers(callers, rasters, transforms, rays) ==
    /\ raster \in rasters
    /\ transform \in transforms
    /\ hm = HeightMapNew(transform, raster)
    /\ ray \in [callers -> {r \in rays : Representable(hm, r)}]
    /\ stack = [c \in callers |-> <<>>]
    /\ pc = [c \in callers |-> "Idle"]
    /\ result = [c \in callers |-> None]
    /\ popped = [c \in callers |-> <<>>]
    /\ NoRender
    /\ NoTransform
    /\ NoSolve

Init == InitCallers({1}, TraversalRasters, Transforms, Rays)

\* self.intersects(ray): entry of a call, up to "let mut stack = vec![..]".
Call(c) ==
    /\ pc[c] = "Idle"
    /\ IF hm.maximum_mipmaps = <<>>
       THEN /\ pc' = [pc EXCEPT ![c] = "Exhausted"]
            /\ UNCHANGED stack
       ELSE /\ pc' = [pc EXCEPT ![c] = "Traversing"]
            /\ stack' = [stack EXCEPT ![StackOf(c)] = InitialStack(hm)]
    /\ hm' = Borrowed(hm)
    /\ UNCHANGED <<raster, transform, ray, result, popped>>
    /\ UNCHANGED <<renderVars, transformVars, solveVars>>

\* One step of the loop of caller c, when it is of the given kind.
Step(c, kind) ==
    /\ Len(popped[c]) <= NodeCount(hm)
    /\ \E it \in {LoopIteration(hm, ray[c], stack[StackOf(c)])} :
          /\ it.kind = kind
          /\ stack' = [stack EXCEPT ![StackOf(c)] = it.stack]
          /\ pc' = [pc EXCEPT ![c] = it.pc]
          /\ result' = [result EXCEPT ![c] = it.result]
    /\ popped' = [popped EXCEPT ![c] =
                     IF kind = "Exhaust" THEN @ ELSE Append(@, pop(stack[StackOf(c)]).item)]
    /\ hm' = Borrowed(hm)
    /\ UNCHANGED <<raster, transform, ray>>
    /\ UNCHANGED <<renderVars, transformVars, solveVars>>

\* stack.pop() is None: the loop ends and the call returns None.
Exhaust(c) ==
    /\ pc[c] = "Traversing"
    /\ Step(c, "Exhaust")

\* The box of the popped cell is missed or lies behind the ray: continue.
Prune(c) ==
    /\ pc[c] = "Traversing"
    /\ Step(c, "Prune")

\* A level-0 cell whose patch the ray misses: continue.
LeafMiss(c) ==
    /\ pc[c] = "Traversing"
    /\ Step(c, "LeafMiss")

\* A level-0 cell whose patch the ray hits: return Some.
LeafHit(c) ==
    /\ pc[c] = "Traversing"
    /\ Step(c, "LeafHit")

\* A cell above level 0: its four children are sorted and appended to the stack.
Descend(c) ==
    /\ pc[c] = "Traversing"
    /\ Step(c, "Descend")

Next ==
    \E c \in {1} :
        \/ Call(c)
        \/ Exhaust(c)
        \/ Prune(c)
        \/ LeafMiss(c)
        \/ LeafHit(c)
        \/ Descend(c)

Spec == Init /\ [][Next]_vars

\* Two callers (worker threads) share one HeightMap; their steps interleave.
ConcRasters ==
    {r \in TraversalRasters : r.width = 2 /\ r.height = 2 /\ r.buffer[1] = MaxElev}

ConcRays ==
    {r \in Rays :
        /\ r.origin \in {Vec3(Q(1, 2), Q(1, 2), Q(1, 2)), Vec3(Q(1, 2), F(3), Q(-3, 2))}
        /\ r.direction \in {Vec3(F(0), F(-1), F(1)), Vec3(F(1), F(-2), F(2)),
                            Vec3(F(0), F(0), F(1)), Vec3(F(1), F(-1), F(1))}}

InitConc == InitCallers({1, 2}, ConcRasters, {<<0, 0, 1, 1>>}, ConcRays)

NextConc ==
    \E c \in {1, 2} :
        \/ Call(c)
        \/ Exhaust(c)
        \/ Prune(c)
        \/ LeafMiss(c)
        \/ LeafHit(c)
        \/ Descend(c)

SpecConc == InitConc /\ [][NextConc]_vars

(***************************************************************************)
(* render_threaded (src/exec.rs): workers take tiles from a TileIterator   *)
(* shared behind a mutex, render each tile into a texture of their own and *)
(* copy it to the shared surface while they hold the lock.                 *)
(***************************************************************************)
\* Images have sides in 1..MaxImageSide, tiles a size in 1..MaxImageSide.
MaxImageSide == 3

Workers == {1, 2}

\* Tile::new (start_x and start_y repeat x and y).
TileNew(x, y, width, height) == [x |-> x, y |-> y, width |-> width, height |-> height]

\* Option<Tile>: None, or Some(tile) as a one-element sequence.
NoTile == <<>>

\* cmp::min
min(a, b) == IF a <= b THEN a ELSE b

\* Texture::tiles
TextureTiles(width, height, size) ==
    [width |-> width, height |-> height, size |-> size, x |-> 0, y |-> 0]

\* A plausible slip: (tx, ty) read after the iterator has advanced.
TileIteratorNextAdvanced(it) ==
    IF it.y = it.height
    THEN [item |-> NoTile, it |-> it]
    ELSE LET tw == min(it.size, it.width - it.x)
             th == min(it.size, it.height - it.y)
             x1 == it.x + tw
             moved == IF x1 = it.width THEN [it EXCEPT !.x = 0, !.y = it.y + th]
                      ELSE [it EXCEPT !.x = x1]
         IN [item |-> <<TileNew(moved.x, moved.y, tw, th)>>, it |-> moved]

\* TileIterator::next: the item returned and the iterator afterwards.
TileIteratorNext(it) ==
    IF it.y = it.height
    THEN [item |-> NoTile, it |-> it]
    ELSE LET tw == min(it.size, it.width - it.x)
             th == min(it.size, it.height - it.y)
             x1 == it.x + tw
         IN [item |-> <<TileNew(it.x, it.y, tw, th)>>,
             it |-> IF x1 = it.width THEN [it EXCEPT !.x = 0, !.y = it.y + th]
                    ELSE [it EXCEPT !.x = x1]]

\* Iterator::count on a TileIterator.
RECURSIVE count(_)
count(it) ==
    IF TileIteratorNext(it).item = NoTile THEN 0 ELSE 1 + count(TileIteratorNext(it).it)

\* The image pixels a tile covers.
TilePixels(tile) ==
    {<<tile.x + x, tile.y + y>> : x \in 0..(tile.width - 1), y \in 0..(tile.height - 1)}

\* renderer.pixel(x, y): a value that tells which pixel it was computed for.
pixel(x, y) == <<x, y>>

\* A plausible slip: the pixel is computed for the coordinates within the tile.
RenderIntoTileLocal(tex, tile) ==
    WriteCells(tex, tile.width, tile.height,
               [x \in 0..(tile.width - 1), y \in 0..(tile.height - 1) |-> pixel(x, y)])

\* for y in 0..tile.height { for x in 0..tile.width {
\*     local.write1x1(x, y, renderer.pixel(tile.x + x, tile.y + y)) } }
RenderInto(tex, tile) ==
    WriteCells(tex, tile.width, tile.height,
               [x \in 0..(tile.width - 1), y \in 0..(tile.height - 1) |->
                    pixel(tile.x + x, tile.y + y)])

\* blit_region(input, output, x, y, width, height): the width x height region at the
\* origin of input goes to (x, y) of output.  A cell of the surface keeps every
\* value written to it; cells outside the region are left as they were.
blit_region(input, output, x, y, width, height) ==
    [output EXCEPT !.buffer =
        [i \in 1..Len(output.buffer) |->
            LET ox == (i - 1) % output.width
                oy == (i - 1) \div output.width
            IN IF /\ x <= ox /\ ox < x + width
                  /\ y <= oy /\ oy < y + height
                  /\ lookup1x1Ok(input, ox - x, oy - y)
               THEN Append(output.buffer[i], lookup1x1(input, ox - x, oy - y))
               ELSE output.buffer[i]]]

\* render_threaded(output, renderer, num_workers, tile_size) up to the spawning of
\* the workers, for an output whose sides are drawn from the given set.
InitRenderSides(sides) ==
    /\ \E width \in sides, height \in sides, tile_size \in 1..MaxImageSide :
          /\ tiles = TextureTiles(width, height, tile_size)
          /\ surface = blank(width, height, <<>>)
          /\ outputTex = blank(width, height, <<>>)
          /\ local = [w \in Workers |-> blank(tile_size, tile_size, <<>>)]
          /\ rendered = [p \in (0..(width - 1)) \X (0..(height - 1)) |-> 0]
    /\ work = [w \in Workers |-> NoTile]
    /\ tileOf = [w \in Workers |-> NoTile]
    /\ handed = <<>>
    /\ channel = <<>>
    /\ completed = 0
    /\ main = "Receive"
    /\ pc = [w \in Workers |-> "Start"]
    /\ raster = blank(1, 1, 0)
    /\ transform = <<0, 0, 1, 1>>
    /\ hm = NoHeightMap
    /\ ray = NoCalls
    /\ stack = NoCalls
    /\ result = NoCalls
    /\ popped = NoCalls
    /\ NoTransform
    /\ NoSolve

InitRender == InitRenderSides(1..MaxImageSide)

\* state.lock().unwrap().tiles.next(), with the lock held: the worker's next
\* Option<Tile>.
TakeWork(w) ==
    LET n == TileIteratorNext(tiles)
    IN /\ tiles' = n.it
       /\ work' = [work EXCEPT ![w] = n.item]
       /\ handed' = IF n.item = NoTile THEN handed ELSE Append(handed, <<w, n.item[1]>>)

\* while let Some(tile) = work: the worker binds the tile and goes on, or leaves the
\* loop and exits.
LoopHead(w, next) ==
    /\ tileOf' = [tileOf EXCEPT ![w] = next]
    /\ pc' = [pc EXCEPT ![w] = IF next = NoTile THEN "Done" ELSE "Render"]

\* let mut work = { state.lock().unwrap().tiles.next() };
FirstTile(w) ==
    /\ pc[w] = "Start"
    /\ TakeWork(w)
    /\ LoopHead(w, work'[w])
    /\ UNCHANGED <<surface, local, rendered, channel, completed, outputTex, main>>
    /\ UNCHANGED <<raster, transform, hm, ray, stack, result, popped, transformVars, solveVars>>

\* The two loops over the tile: every pixel of the tile is rendered into local.
RenderTile(w) ==
    /\ pc[w] = "Render"
    /\ local' = [local EXCEPT ![w] = RenderInto(@, tileOf[w][1])]
    /\ rendered' = [p \in DOMAIN rendered |->
                        IF p \in TilePixels(tileOf[w][1]) THEN rendered[p] + 1
                        ELSE rendered[p]]
    /\ pc' = [pc EXCEPT ![w] = "Blit"]
    /\ UNCHANGED <<tiles, surface, work, handed, tileOf, channel, completed, outputTex, main>>
    /\ UNCHANGED <<raster, transform, hm, ray, stack, result, popped, transformVars, solveVars>>

\* With the lock held: blit_region(&local, &mut surface, ..) and tiles.next().
BlitTile(w) ==
    /\ pc[w] = "Blit"
    /\ surface' = blit_region(local[w], surface, tileOf[w][1].x, tileOf[w][1].y,
                              tileOf[w][1].width, tileOf[w][1].height)
    /\ TakeWork(w)
    /\ pc' = [pc EXCEPT ![w] = "Send"]
    /\ UNCHANGED <<local, rendered, tileOf, channel, completed, outputTex, main>>
    /\ UNCHANGED <<raster, transform, hm, ray, stack, result, popped, transformVars, solveVars>>

\* sender.send(tile.width * tile.height), then the head of the loop again.
Send(w) ==
    /\ pc[w] = "Send"
    /\ channel' = Append(channel, tileOf[w][1].width * tileOf[w][1].height)
    /\ LoopHead(w, work[w])
    /\ UNCHANGED <<tiles, surface, work, local, handed, rendered, completed, outputTex, main>>
    /\ UNCHANGED <<raster, transform, hm, ray, stack, result, popped, transformVars, solveVars>>

\* while let Ok(rendered) = receiver.recv() { completed += rendered;
\*     if completed == total { break; } }: recv blocks while the channel is empty;
\* it cannot fail, because render_threaded keeps its own sender.
Receive ==
    /\ main = "Receive"
    /\ channel # <<>>
    /\ completed' = completed + Head(channel)
    /\ channel' = Tail(channel)
    /\ main' = IF completed' = tiles.width * tiles.height THEN "Join" ELSE "Receive"
    /\ UNCHANGED <<tiles, surface, work, local, handed, rendered, tileOf, outputTex, pc>>
    /\ UNCHANGED <<raster, transform, hm, ray, stack, result, popped, transformVars, solveVars>>

\* for worker in workers { worker.join().unwrap(); }, then
\* blit(&state.surface, output, 0, 0) and return.
Finish ==
    /\ main = "Join"
    /\ \A w \in Workers : pc[w] = "Done"
    /\ outputTex' = blit(surface, outputTex, 0, 0)
    /\ main' = "Returned"
    /\ UNCHANGED <<tiles, surface, work, local, handed, rendered, tileOf, channel, completed, pc>>
    /\ UNCHANGED <<raster, transform, hm, ray, stack, result, popped, transformVars, solveVars>>

NextRender ==
    \/ \E w \in {1, 2} :
          \/ FirstTile(w)
          \/ RenderTile(w)
          \/ BlitTile(w)
          \/ Send(w)
    \/ Receive
    \/ Finish

SpecRender == InitRender /\ [][NextRender]_vars

\* render_threaded on outputs of every size, empty ones included, each thread being
\* scheduled again and again.
SpecRenderFair ==
    /\ InitRenderSides(0..MaxImageSide)
    /\ [][NextRender]_vars
    /\ \A w \in {1, 2} : WF_vars(FirstTile(w) \/ RenderTile(w) \/ BlitTile(w) \/ Send(w))
    /\ WF_vars(Receive \/ Finish)

(***************************************************************************)
(* AffineTransform (src/math/transform.rs) and the two transform methods   *)
(* of HeightMap, in rounded arithmetic.  An f64 keeps 53 significant bits; *)
(* here a value keeps MantBits of them (round to nearest, ties to even,    *)
(* exponent unbounded), so that sums and quotients round as they do in the *)
(* code, only sooner.                                                      *)
(***************************************************************************)
MantBits == 8

\* Levels of the quadtree tried: 0..MaxLevel.
MaxLevel == 2

\* The binary exponent k of n/d: 2^(MantBits - 1) <= (n/d) * 2^k < 2^MantBits.
RECURSIVE Exponent(_, _, _)
Exponent(n, d, k) ==
    LET num == n * Pow2(IF k > 0 THEN k ELSE 0)
        den == d * Pow2(IF k < 0 THEN -k ELSE 0)
    IN IF num < Pow2(MantBits - 1) * den THEN Exponent(n, d, k + 1)
       ELSE IF num >= Pow2(MantBits) * den THEN Exponent(n, d, k - 1)
       ELSE k

\* The value nearest to q that has MantBits significant bits.
Round(q) ==
    IF ~IsFinite(q) \/ q[1] = 0 THEN q
    ELSE LET k == Exponent(Abs(q[1]), q[2], 0)
             num == Abs(q[1]) * Pow2(IF k > 0 THEN k ELSE 0)
             den == q[2] * Pow2(IF k < 0 THEN -k ELSE 0)
             floor == num \div den
             rem == num % den
             m == IF 2 * rem > den \/ (2 * rem = den /\ floor % 2 = 1)
                  THEN floor + 1 ELSE floor
         IN Q(Sgn(q[1]) * m * Pow2(IF k < 0 THEN -k ELSE 0), Pow2(IF k > 0 THEN k ELSE 0))

\* AffineTransform::new(e, f, a, d)
AffineTransformNew(e, f, a, d) == <<e, f, a, d>>

forward(t, x, y) == <<Round(FAdd(t[1], Round(FMul(x, t[3])))), Round(FAdd(t[2], Round(FMul(y, t[4]))))>>

quadtree(t, level, x, y) ==
    LET a == Round(FMul(t[3], F(Pow2(level))))
        d == Round(FMul(t[4], F(Pow2(level))))
    IN <<Round(FAdd(t[1], Round(FMul(x, a)))), Round(FAdd(t[2], Round(FMul(y, d))))>>

\* A plausible slip: the offset removed after the division instead of before it.
inverseDivideFirst(t, x, y) == <<Round(FSub(Round(FDiv(x, t[3])), t[1])), Round(FSub(Round(FDiv(y, t[4])), t[2]))>>

inverse(t, x, y) == <<Round(FDiv(Round(FSub(x, t[1])), t[3])), Round(FDiv(Round(FSub(y, t[2])), t[4]))>>

\* HeightMap::world_to_raster, on the transform array of the HeightMap.
world_to_raster_rounded(t, x, y) ==
    <<Round(FDiv(Round(FSub(x, t[1])), t[3])), Round(FDiv(Round(FSub(y, t[2])), t[4]))>>

\* HeightMap::raster_to_world
raster_to_world_rounded(t, level, x, y) ==
    LET width == Round(FMul(t[3], F(Pow2(level))))
        depth == Round(FMul(t[4], F(Pow2(level))))
    IN <<Round(FAdd(t[1], Round(FMul(x, width)))), Round(FAdd(t[2], Round(FMul(y, depth))))>>

\* The transforms tried: the identity, the one of the tests, and two with unequal,
\* fractional or negative pixel sizes (never zero).
TransformInputs ==
    {AffineTransformNew(F(0), F(0), F(1), F(1)),
     AffineTransformNew(F(-100), F(-100), F(2), F(2)),
     AffineTransformNew(F(1), F(-2), Q(1, 2), F(3)),
     AffineTransformNew(F(1), Q(1, 4), F(5), F(-1))}

\* The coordinates tried; the last is the largest step that is lost when added to 1.
CoordInputs == {F(0), F(1), F(-100), F(100), Q(5, 2), Q(1, Pow2(MantBits))}

InitTransform ==
    /\ transform \in TransformInputs
    /\ coords \in (0..MaxLevel) \X CoordInputs \X CoordInputs
    /\ mapped = [m \in {"forward", "inverse", "quadtree", "inverse_forward",
                        "forward_inverse", "world_to_raster", "raster_to_world"} |-> <<>>]
    /\ raster = blank(1, 1, 0)
    /\ hm = NoHeightMap
    /\ ray = NoCalls
    /\ stack = NoCalls
    /\ pc = NoCalls
    /\ result = NoCalls
    /\ popped = NoCalls
    /\ NoRender
    /\ NoSolve

\* The value of one method is computed and kept.
Keep(method, value) ==
    /\ mapped[method] = <<>>
    /\ mapped' = [mapped EXCEPT ![method] = value]
    /\ UNCHANGED <<callVars, renderVars, solveVars, coords>>

\* t.forward(x, y)
Forward ==
    /\ coords # <<>>
    /\ Keep("forward", forward(transform, coords[2], coords[3]))

\* t.inverse(x, y)
Inverse ==
    /\ coords # <<>>
    /\ Keep("inverse", inverse(transform, coords[2], coords[3]))

\* t.quadtree(level, x, y)
Quadtree ==
    /\ coords # <<>>
    /\ Keep("quadtree", quadtree(transform, coords[1], coords[2], coords[3]))

\* t.inverse(fx, fy) for (fx, fy) = t.forward(x, y)
InverseOfForward ==
    /\ mapped["forward"] # <<>>
    /\ Keep("inverse_forward", inverse(transform, mapped["forward"][1], mapped["forward"][2]))

\* t.forward(ix, iy) for (ix, iy) = t.inverse(x, y)
ForwardOfInverse ==
    /\ mapped["inverse"] # <<>>
    /\ Keep("forward_inverse", forward(transform, mapped["inverse"][1], mapped["inverse"][2]))

\* height_map.world_to_raster(x, y), the HeightMap holding the same transform array
WorldToRaster ==
    /\ coords # <<>>
    /\ Keep("world_to_raster", world_to_raster_rounded(transform, coords[2], coords[3]))

\* height_map.raster_to_world(level, x, y)
RasterToWorld ==
    /\ coords # <<>>
    /\ Keep("raster_to_world",
            raster_to_world_rounded(transform, coords[1], coords[2], coords[3]))

NextTransform ==
    \/ Forward
    \/ Inverse
    \/ Quadtree
    \/ InverseOfForward
    \/ ForwardOfInverse
    \/ WorldToRaster
    \/ RasterToWorld

SpecTransform == InitTransform /\ [][NextTransform]_vars

(***************************************************************************)
(* BilinearPatch::solutions called on its own, with coefficients drawn     *)
(* from -MaxCoef..MaxCoef whose discriminant has a rational square root.   *)
(***************************************************************************)
MaxCoef == 3

QuadraticInputs ==
    {q \in {<<F(a), F(b), F(c)>> : a, b, c \in (-MaxCoef)..MaxCoef} :
        LET d == Discriminant(q[1], q[2], q[3])
        IN q[1] = F(0) \/ ~FGt(d, F(0)) \/ HasExactSqrt(d)}

InitSolve ==
    /\ quadratic \in QuadraticInputs
    /\ solved = <<>>
    /\ scene = <<>>
    /\ colour = <<>>
    /\ raster = blank(1, 1, 0)
    /\ transform = <<0, 0, 1, 1>>
    /\ hm = NoHeightMap
    /\ ray = NoCalls
    /\ stack = NoCalls
    /\ pc = NoCalls
    /\ result = NoCalls
    /\ popped = NoCalls
    /\ NoRender
    /\ NoTransform

\* self.solutions(a, b, c): the Vec returned, kept as the one element of solved.
Solutions ==
    /\ solved = <<>>
    /\ solved' = <<solutions(quadratic[1], quadratic[2], quadratic[3])>>
    /\ UNCHANGED <<callVars, renderVars, transformVars, quadratic, scene, colour>>

SpecSolve == InitSolve /\ [][Solutions]_vars

(***************************************************************************)
(* Renderer::pixel (src/render.rs) called on its own.  An object is the    *)
(* index of its material and, for each sample ray, what its intersects     *)
(* returns; material.shade is a value naming the material and the t.       *)
(***************************************************************************)
MaxObjects == 2

Samples == {1, 2}

\* The scenes: intersects may return None, or Some with t negative, zero, positive,
\* +infinity (the t of Intersection::none()) or NaN.
SceneInputs ==
    LET returned == {None, Some(F(-1)), Some(F(0)), Some(F(1)), Some(F(2)),
                     Some(INFINITY), Some(NaN)}
    IN UNION {[1..n -> [material : {0, 1}, hit : [Samples -> returned]]] : n \in 0..MaxObjects}

\* A plausible slip: a later object at the same distance replaces the earlier one.
RECURSIVE ScanLastOnTies(_, _, _, _, _)
ScanLastOnTies(objects, sample, i, index, intersection) ==
    IF i >= Len(objects) THEN <<index, intersection>>
    ELSE LET other == objects[i + 1].hit[sample]
         IN IF other.some /\ FLe(other.t, intersection) /\ FGt(other.t, F(0))
            THEN ScanLastOnTies(objects, sample, i + 1, i, other.t)
            ELSE ScanLastOnTies(objects, sample, i + 1, index, intersection)

\* for (i, obj) in self.scene.objects.iter().enumerate(): the index and the t kept
\* after the objects from i on have been tested.
RECURSIVE Scan(_, _, _, _, _)
Scan(objects, sample, i, index, intersection) ==
    IF i >= Len(objects) THEN <<index, intersection>>
    ELSE LET other == objects[i + 1].hit[sample]
         IN IF other.some /\ FLt(other.t, intersection) /\ FGt(other.t, F(0))
            THEN Scan(objects, sample, i + 1, i, other.t)
            ELSE Scan(objects, sample, i + 1, index, intersection)

\* The sub_color of one sample: the background when intersection.is_none(), else
\* the shade of the material of objects[index].
SubColour(objects, sample) ==
    LET kept == Scan(objects, sample, 0, 0, INFINITY)
    IN IF kept[2] = INFINITY THEN <<"background">>
       ELSE <<"shade", objects[kept[1] + 1].material, kept[2]>>

InitPixel ==
    /\ scene \in SceneInputs
    /\ colour = <<>>
    /\ quadratic = <<>>
    /\ solved = <<>>
    /\ raster = blank(1, 1, 0)
    /\ transform = <<0, 0, 1, 1>>
    /\ hm = NoHeightMap
    /\ ray = NoCalls
    /\ stack = NoCalls
    /\ pc = NoCalls
    /\ result = NoCalls
    /\ popped = NoCalls
    /\ NoRender
    /\ NoTransform

\* renderer.pixel(x, y): the sub-colour of every sample, which the code sums with
\* the weight 1 / amount.
Pixel ==
    /\ colour = <<>>
    /\ colour' = <<[s \in Samples |-> SubColour(scene, s)]>>
    /\ UNCHANGED <<callVars, renderVars, transformVars, quadratic, solved, scene>>

SpecPixel == InitPixel /\ [][Pixel]_vars

(***************************************************************************)
(* tests::test_maximum_mipmaps_bilinear_patches (src/ops.rs): the 5x5      *)
(* raster 1.0, 3.5, ..., 13.0 with every sample doubled to stay integral.  *)
(***************************************************************************)
TestHeightMap ==
    [width |-> 5, height |-> 5,
     buffer |-> [i \in 1..25 |-> 2 + ((i - 1) \div 5) + 5 * ((i - 1) % 5)]]

TestLevels ==
    LET lv == height_map_to_bilinear_patch(TestHeightMap,
                                           blank(4, 4, <<0, 0, 0, 0>>), blank(4, 4, 0))
        mipmap1 == maximum_mipmap_bilinear_patch(lv.level1, blank(2, 2, 0))
        mipmap2 == maximum_mipmap_bilinear_patch(mipmap1, blank(1, 1, 0))
    IN <<lv.level1, mipmap1, mipmap2>>

(***************************************************************************)
(* Claims about construction (checked under SpecBuild).                    *)
(***************************************************************************)
PatchGridSide == hm.bilinear_patches.width

TopLevel == hm.maximum_mipmaps[Len(hm.maximum_mipmaps)]

\* The corner elevations of all cells of the patch grid.
AllCorners ==
    {hm.bilinear_patches.buffer[i][k] : i \in 1..Len(hm.bilinear_patches.buffer), k \in 1..4}

IsPow2(n) == \E e \in 0..n : Pow2(e) = n

\* C1: HeightMap::new succeeds for every raster with width >= 1 and height >= 1,
\* square or not: no buffer access of blit, lookup2x2 or write1x1 is out of range
\* and no size assertion of the two mipmap operations fails.
C1_BuildSucceeds == hm.built => hm.ok

C1_Witness ==
    /\ hm.built
    /\ hm.ok
    /\ raster.width # raster.height
    /\ Len(hm.maximum_mipmaps) >= 3

\* C2: every cell (x, y) of every pyramid level L holds a value >= every corner
\* elevation of every level-0 patch (x', y') with x*2^L <= x' < (x+1)*2^L and
\* y*2^L <= y' < (y+1)*2^L.
C2_MipmapBound ==
    hm.ok =>
        \A L \in 0..(Len(hm.maximum_mipmaps) - 1) :
            LET level == hm.maximum_mipmaps[L + 1]
                span == Pow2(L)
            IN \A x \in 0..(level.width - 1), y \in 0..(level.height - 1) :
                   \A x0 \in (x * span)..((x + 1) * span - 1),
                      y0 \in (y * span)..((y + 1) * span - 1), k \in 1..4 :
                       lookup1x1(level, x, y) >= lookup1x1(hm.bilinear_patches, x0, y0)[k]

C2_Witness ==
    /\ hm.ok
    /\ Len(hm.maximum_mipmaps) >= 3
    /\ lookup1x1(hm.maximum_mipmaps[2], 0, 0) > lookup1x1(hm.maximum_mipmaps[1], 0, 0)
    /\ lookup1x1(hm.maximum_mipmaps[3], 0, 0) > lookup1x1(hm.maximum_mipmaps[2], 0, 0)

\* C3: the last level of the pyramid is a single 1x1 cell whose value is the
\* maximum over the four corner elevations of all cells of the patch grid; for the
\* 5x5 test raster the levels reduce to [7, 12, 8, 13] and then to 13 (doubled here).
C3_TopIsGlobalMax ==
    /\ hm.ok =>
        /\ TopLevel.width = 1
        /\ TopLevel.height = 1
        /\ Len(TopLevel.buffer) = 1
        /\ TopLevel.buffer[1] \in AllCorners
        /\ \A c \in AllCorners : c <= TopLevel.buffer[1]
    /\ TestLevels[2].buffer = <<14, 24, 16, 26>>
    /\ TestLevels[3].buffer = <<26>>

C3_Witness ==
    /\ hm.ok
    /\ Len(hm.maximum_mipmaps) >= 2
    /\ TopLevel.buffer[1] = MaxElev
    /\ lookup1x1(hm.bilinear_patches, 0, 0)[1] = MaxElev
    /\ lookup1x1(hm.bilinear_patches, 0, 0)[3] < MaxElev

\* C4: the patch grid is square with side S, a power of two, S >= max(w, h), and no
\* smaller power of two is >= max(w, h).
C4_SideIsNextPow2 ==
    hm.ok =>
        LET S == PatchGridSide
            m == max(raster.width, raster.height)
        IN /\ hm.bilinear_patches.height = S
           /\ Len(hm.bilinear_patches.buffer) = S * S
           /\ IsPow2(S)
           /\ S >= m
           /\ (S = 1 \/ S \div 2 < m)

C4_Witness ==
    /\ hm.ok
    /\ max(raster.width, raster.height) = 3
    /\ PatchGridSide = 4

\* The sample the padded (S+1) x (S+1) copy of the raster must hold at (x, y): the
\* raster's sample inside w x h, zero elsewhere.
PaddedSample(x, y) ==
    IF x < raster.width /\ y < raster.height
    THEN raster.buffer[raster.width * y + x + 1]
    ELSE 0

MaxOf(values) == CHOOSE m \in values : \A v \in values : v <= m

\* C15: every cell (x, y) of the patch grid holds the corners of the padded buffer in
\* clockwise order [P[x,y], P[x+1,y], P[x+1,y+1], P[x,y+1]], and level 0 of the pyramid
\* holds the maximum of those four; the 5x5 test raster gives the patches and the
\* level 0 of the test (doubled here).
C15_PatchCorners ==
    /\ hm.ok =>
        \A x \in 0..(PatchGridSide - 1), y \in 0..(PatchGridSide - 1) :
            LET corners == <<PaddedSample(x, y), PaddedSample(x + 1, y),
                             PaddedSample(x + 1, y + 1), PaddedSample(x, y + 1)>>
            IN /\ lookup1x1(hm.bilinear_patches, x, y) = corners
               /\ lookup1x1(hm.maximum_mipmaps[1], x, y) = MaxOf({corners[k] : k \in 1..4})
    /\ LET lv == height_map_to_bilinear_patch(TestHeightMap,
                                               blank(4, 4, <<0, 0, 0, 0>>), blank(4, 4, 0))
       IN /\ SubSeq(lv.level0.buffer, 1, 5) =
                <<<<2, 7, 8, 3>>, <<7, 12, 13, 8>>, <<12, 17, 18, 13>>, <<17, 22, 23, 18>>,
                  <<3, 8, 9, 4>>>>
          /\ lv.level0.buffer[16] = <<20, 25, 26, 21>>
          /\ lv.level1.buffer = <<8, 13, 18, 23, 9, 14, 19, 24, 10, 15, 20, 25,
                                  11, 16, 21, 26>>

\* A built field whose first patch has four different corners, so that the order of
\* the corners shows, next to a patch that lies partly on the padding.
C15_Witness ==
    /\ hm.ok
    /\ PatchGridSide = 2
    /\ raster.width = 2
    /\ raster.height = 2
    /\ Cardinality({lookup1x1(hm.bilinear_patches, 0, 0)[k] : k \in 1..4}) = 4
    /\ lookup1x1(hm.bilinear_patches, 1, 1)[2] = 0

\* C16: every cell (x, y) of level i+1 equals the maximum of the 2x2 block
\* (2x, 2y), (2x+1, 2y), (2x, 2y+1), (2x+1, 2y+1) of level i: equality, not a bound.
C16_BlockMaxExact ==
    hm.ok =>
        \A i \in 1..(Len(hm.maximum_mipmaps) - 1) :
            LET lower == hm.maximum_mipmaps[i]
                upper == hm.maximum_mipmaps[i + 1]
            IN \A x \in 0..(upper.width - 1), y \in 0..(upper.height - 1) :
                   lookup1x1(upper, x, y) =
                       MaxOf({lookup1x1(lower, 2 * x + dx, 2 * y + dy) :
                                  dx \in 0..1, dy \in 0..1})

\* A level-1 cell that is strictly lower than a cell of level 0 outside its block.
C16_Witness ==
    /\ hm.ok
    /\ Len(hm.maximum_mipmaps) = 3
    /\ lookup1x1(hm.maximum_mipmaps[2], 1, 0) < lookup1x1(hm.maximum_mipmaps[1], 0, 0)
    /\ lookup1x1(hm.maximum_mipmaps[2], 1, 0) > lookup1x1(hm.maximum_mipmaps[1], 3, 0)

\* C17: construction ends with exactly log2(S) + 1 levels, level i a square grid of
\* side S / 2^i, the last of side 1; for S = 1 the pyramid is level 0 alone.
C17_LevelCount ==
    (hm.built /\ hm.ok) =>
        LET S == PatchGridSide
            n == Len(hm.maximum_mipmaps)
        IN /\ Pow2(n - 1) = S
           /\ \A i \in 0..(n - 1) :
                  LET level == hm.maximum_mipmaps[i + 1]
                  IN /\ level.width * Pow2(i) = S
                     /\ level.height = level.width
                     /\ Len(level.buffer) = level.width * level.width
           /\ hm.maximum_mipmaps[n].width = 1
           /\ (S = 1 => n = 1)

C17_Witness ==
    /\ hm.ok
    /\ PatchGridSide = 4
    /\ Len(hm.maximum_mipmaps) = 3
    /\ raster.width = 3

\* The (S+1) x (S+1) destination of the copy made by HeightMap::new, filled with fill.
PaddedBlank(fill) ==
    LET size == ceil_pow2(max(raster.width, raster.height))
    IN blank(PaddedSide(size), PaddedSide(size), fill)

\* C18: the raster copied at the origin of the zero (S+1) x (S+1) buffer gives
\* buffer[x,y] = raster[x,y] for x < w, y < h and 0 elsewhere; copied at any offset
\* that fits, blit writes the destination rectangle only and leaves the rest as it was.
C18_ZeroPadding ==
    hm.ok =>
        /\ LET height_map2 == blit(raster, PaddedBlank(0), 0, 0)
           IN \A x \in 0..(height_map2.width - 1), y \in 0..(height_map2.height - 1) :
                  lookup1x1(height_map2, x, y) = PaddedSample(x, y)
        /\ \A ox \in 0..1, oy \in 0..1 :
               blitOk(raster, PaddedBlank(-7), ox, oy) =>
                   LET out == blit(raster, PaddedBlank(-7), ox, oy)
                   IN /\ Len(out.buffer) = Len(PaddedBlank(-7).buffer)
                      /\ \A x \in 0..(out.width - 1), y \in 0..(out.height - 1) :
                             lookup1x1(out, x, y) =
                                 IF /\ ox <= x /\ x < ox + raster.width
                                    /\ oy <= y /\ y < oy + raster.height
                                 THEN lookup1x1(raster, x - ox, y - oy)
                                 ELSE -7

\* A built field from a 2x2 raster with no zero sample of its own, whose padded copy
\* is 3x3, so that the raster also fits at offset (1, 1).
C18_Witness ==
    /\ hm.ok
    /\ raster.width = 2
    /\ raster.height = 2
    /\ \A i \in 1..4 : raster.buffer[i] # 0
    /\ lookup1x1(hm.bilinear_patches, 1, 1) = <<raster.buffer[4], 0, 0, 0>>
    /\ blitOk(raster, PaddedBlank(-7), 1, 1)

(***************************************************************************)
(* Claims about one call of HeightMap::intersects (checked under Spec).    *)
(***************************************************************************)
TopIndex == Len(hm.maximum_mipmaps) - 1

\* The outcome of the patch solve of a popped item (None for an item above level 0).
LeafSolve(c, item) ==
    IF item[1] = 0 THEN BilinearPatchIntersects(CellPatch(hm, item), ray[c]) ELSE None

\* The popped item was tested as a leaf: it is at level 0 and its box let it through.
TestedAsLeaf(c, item) == item[1] = 0 /\ AabbPasses(hm, ray[c], item)

\* C5: a call starts with the stack holding exactly (topIndex, 0, 0) and ends either
\* LeafResolved, returning Some for the first popped level-0 cell whose patch solve
\* hits, or Exhausted, returning None with the stack empty; once it has ended,
\* nothing more is popped or tested.
C5_StartAndTerminalStates ==
    /\ [](\A c \in DOMAIN pc :
            /\ pc[c] \in {"Idle", "Traversing"} \cup Terminal
            /\ (pc[c] = "Traversing" /\ popped[c] = <<>>) =>
                   stack[c] = <<<<TopIndex, 0, 0>>>>
            /\ pc[c] = "LeafResolved" =>
                   /\ popped[c] # <<>>
                   /\ LET hit == popped[c][Len(popped[c])]
                      IN /\ TestedAsLeaf(c, hit)
                         /\ LeafSolve(c, hit).some
                         /\ result[c].some
                         /\ result[c].t = LeafSolve(c, hit).t
                   /\ \A i \in 1..(Len(popped[c]) - 1) :
                          TestedAsLeaf(c, popped[c][i]) => ~LeafSolve(c, popped[c][i]).some
            /\ pc[c] = "Exhausted" => (result[c] = None /\ stack[c] = <<>>))
    /\ [][\A c \in DOMAIN pc :
              pc[c] \in Terminal =>
                  (pc'[c] = pc[c] /\ popped'[c] = popped[c] /\ result'[c] = result[c])]_vars

\* A call that tested a leaf and missed it, then resolved on a later leaf while
\* items were still waiting on the stack.
C5_Witness ==
    /\ pc[1] = "LeafResolved"
    /\ stack[1] # <<>>
    /\ \E i \in 1..(Len(popped[1]) - 1) : TestedAsLeaf(1, popped[1][i])

\* The items a pyramid with top index k has: level 0..k, coordinates below 2^(k-level).
ValidItem(item) ==
    /\ item[1] \in 0..TopIndex
    /\ item[2] \in 0..(Pow2(TopIndex - item[1]) - 1)
    /\ item[3] \in 0..(Pow2(TopIndex - item[1]) - 1)

\* The loop of caller c has a step to take: one of the five kinds of iteration
\* applies to its stack.
HasStep(c) ==
    /\ Len(popped[c]) <= NodeCount(hm)
    /\ LoopIteration(hm, ray[c], stack[c]).kind
           \in {"Exhaust", "Prune", "LeafMiss", "LeafHit", "Descend"}

\* C6: every call terminates after finitely many pops.  A running call always has
\* a step to take, and each step either pops one more item or ends the call; no
\* popped item is below level 0, no item is popped twice, and at most
\* (4^(k+1) - 1) / 3 items are ever popped, k being the top index of the pyramid.
C6_Terminates ==
    /\ [](\A c \in DOMAIN pc :
            /\ Len(popped[c]) <= (Pow2(2 * (TopIndex + 1)) - 1) \div 3
            /\ \A i \in 1..Len(popped[c]) : ValidItem(popped[c][i])
            /\ \A i, j \in 1..Len(popped[c]) : popped[c][i] = popped[c][j] => i = j
            /\ \A i \in 1..Len(stack[c]) : ValidItem(stack[c][i])
            /\ pc[c] = "Traversing" => HasStep(c))
    /\ [][\A c \in DOMAIN pc :
              (pc[c] = "Traversing" /\ <<pc[c], stack[c], popped[c]>>' # <<pc[c], stack[c], popped[c]>>)
                  => \/ Len(popped'[c]) = Len(popped[c]) + 1
                     \/ (pc'[c] = "Exhausted" /\ popped'[c] = popped[c])]_vars

\* A call on a three-level pyramid that ended only after popping ten cells.
C6_Witness ==
    /\ TopIndex = 2
    /\ pc[1] \in Terminal
    /\ Len(popped[1]) >= 10

\* The brute-force scan: every level-0 patch is solved directly and the smallest
\* (positive) t is kept.
BruteForce(h, r) ==
    LET hits == {x \in {BilinearPatchIntersects(CellPatch(h, leaf), r) : leaf \in Leaves(h)} :
                    x.some}
    IN IF hits = {} THEN None
       ELSE Some((CHOOSE x \in hits : \A y \in hits : FLe(x.t, y.t)).t)

\* Both are None, or both are Some with the same t.
SameAnswer(a, b) == a.some = b.some /\ (a.some => a.t = b.t)

\* The closed interval of ray parameters for which one coordinate lies in [lo, hi].
SlabInterval(o, d, lo, hi) ==
    IF d = F(0)
    THEN (IF FLe(lo, o) /\ FLe(o, hi) THEN <<FNeg(INFINITY), INFINITY>>
          ELSE <<INFINITY, FNeg(INFINITY)>>)
    ELSE IF FGt(d, F(0)) THEN <<FDiv(FSub(lo, o), d), FDiv(FSub(hi, o), d)>>
    ELSE <<FDiv(FSub(hi, o), d), FDiv(FSub(lo, o), d)>>

\* The horizontal path of the ray (t >= 0) meets the rectangle [x0, x1] x [z0, z1].
PathMeets(r, x0, z0, x1, z1) ==
    LET ix == SlabInterval(r.origin[1], r.direction[1], x0, x1)
        iz == SlabInterval(r.origin[3], r.direction[3], z0, z1)
    IN FLe(FMax(FMax(ix[1], iz[1]), F(0)), FMin(ix[2], iz[2]))

\* The horizontal extent of the patch grid: S x S cells from the origin of the transform.
MeetsGridExtent(r) ==
    PathMeets(r, F(transform[1]), F(transform[2]),
              F(transform[1] + PatchGridSide * transform[3]),
              F(transform[2] + PatchGridSide * transform[4]))

\* The horizontal extent of the raster: width x height pixels from the origin.
MeetsRasterExtent(r) ==
    PathMeets(r, F(transform[1]), F(transform[2]),
              F(transform[1] + raster.width * transform[3]),
              F(transform[2] + raster.height * transform[4]))

\* C7: for a terrain with non-negative elevations and a ray that hits the field's
\* horizontal extent, the result of the hierarchical traversal (Some with its t, or
\* None) equals the result of the brute-force scan over all level-0 patches.
C7_MatchesBruteForce ==
    \A c \in DOMAIN pc :
        (pc[c] \in Terminal /\ MeetsGridExtent(ray[c]))
            => SameAnswer(result[c], BruteForce(hm, ray[c]))

\* A ray that meets the extent, passes over cells it misses and then hits a patch
\* while another patch farther along it is hit as well.
C7_Witness ==
    /\ pc[1] = "LeafResolved"
    /\ MeetsGridExtent(ray[1])
    /\ \E i \in 1..(Len(popped[1]) - 1) : TestedAsLeaf(1, popped[1][i])
    /\ \E leaf \in Leaves(hm) :
          /\ LeafSolve(1, leaf).some
          /\ FGt(LeafSolve(1, leaf).t, result[1].t)

\* C8: a ray whose horizontal path lies entirely outside the field's world-space
\* rectangle returns None, whatever the elevations are.
C8_NoFalsePositives ==
    \A c \in DOMAIN pc :
        (pc[c] \in Terminal /\ ~MeetsRasterExtent(ray[c])) => result[c] = None

\* The raster coordinates at which the normal map is sampled for a hit at t.
HitRaster(c, t) ==
    LET point == VAdd(ray[c].origin, VScale(ray[c].direction, t))
    IN world_to_raster(hm, point[1], point[3])

\* C11: every Some returned by a call has t > 0 and a normal of length 1, in
\* whichever leaf cell the hit is found (cells of the last row or column of the
\* raster and cells over the padding included).
C11_UnitNormal ==
    \A c \in DOMAIN pc :
        (pc[c] = "LeafResolved" /\ result[c].some) =>
            /\ FGt(result[c].t, F(0))
            /\ LET xy == HitRaster(c, result[c].t)
               IN bilinearIsUnit(hm.normal_map, xy[1], xy[2])

\* The level-0 cell holds a flat patch: its four corners have the same height.
FlatLeaf(leaf) ==
    LET c == lookup1x1(hm.bilinear_patches, leaf[2], leaf[3])
    IN c[1] = c[2] /\ c[2] = c[3] /\ c[3] = c[4]

\* The parameter at which the ray of caller c crosses the plane y = h.
PlaneT(c, h) == FDiv(FSub(h, ray[c].origin[2]), ray[c].direction[2])

\* The ray of caller c crosses the plane of the flat leaf inside the leaf's
\* footprint, at a parameter t > 0.
CrossesFlatLeaf(c, leaf) ==
    LET box == CellAabb(hm, leaf)
        h == F(lookup1x1(hm.bilinear_patches, leaf[2], leaf[3])[1])
        t == PlaneT(c, h)
        point == VAdd(ray[c].origin, VScale(ray[c].direction, t))
    IN /\ ray[c].direction[2] # F(0)
       /\ FGt(t, F(0))
       /\ FLe(box.min[1], point[1]) /\ FLe(point[1], box.max[1])
       /\ FLe(box.min[3], point[3]) /\ FLe(point[3], box.max[3])

\* The vector is a positive multiple of (0, 1, 0): normalised, it is (0, 1, 0).
PointsUp(v) == v[1] = F(0) /\ FGt(v[2], F(0)) /\ v[3] = F(0)

\* C12: for a patch whose four corners have the same height h and a ray with
\* direction.y # 0 that crosses the plane y = h inside the patch at t > 0 (a ray
\* pointing straight down included), BilinearPatch::intersects returns Some with
\* t = (h - origin.y) / direction.y, and the patch normal is (0, 1, 0).
C12_FlatPatch ==
    \A c \in DOMAIN pc :
        \A i \in 1..Len(popped[c]) :
            LET leaf == popped[c][i]
            IN (TestedAsLeaf(c, leaf) /\ FlatLeaf(leaf) /\ CrossesFlatLeaf(c, leaf)) =>
                   LET patch == CellPatch(hm, leaf)
                       h == F(lookup1x1(hm.bilinear_patches, leaf[2], leaf[3])[1])
                   IN /\ LeafSolve(c, leaf) = Some(PlaneT(c, h))
                      /\ \A u, v \in {F(0), Q(1, 2), F(1)} : PointsUp(normal(patch, u, v))

\* b is a cell of the subtree below a.
Descendant(a, b) ==
    /\ b[1] < a[1]
    /\ b[2] \div Pow2(a[1] - b[1]) = a[2]
    /\ b[3] \div Pow2(a[1] - b[1]) = a[3]

\* The outcome of Aabb::intersects on the box of a cell, for the ray of caller c.
BoxHit(c, item) ==
    LET box == CellAabb(hm, item)
    IN AabbIntersects(box.min, box.max, ray[c])

\* C19: when the box test of a popped cell gives no hit or a hit with t < 0, none
\* of the cell's descendants is pushed or popped (hence tested or solved) later in
\* the call; a popped cell above level 0 whose box hit has t >= 0 has its four
\* children pushed: each is on the stack until it is popped.
C19_Pruning ==
    \A c \in DOMAIN pc :
        \A i \in 1..Len(popped[c]) :
            LET item == popped[c][i]
                hit == BoxHit(c, item)
            IN /\ (~hit.some \/ FLt(hit.t, F(0))) =>
                      /\ \A j \in 1..Len(popped[c]) : ~Descendant(item, popped[c][j])
                      /\ \A k \in 1..Len(stack[c]) : ~Descendant(item, stack[c][k])
               /\ (item[1] > 0 /\ hit.some /\ FGe(hit.t, F(0))) =>
                      \A k \in 1..4 :
                          \/ \E j \in (i + 1)..Len(popped[c]) : popped[c][j] = Children(item)[k]
                          \/ \E n \in 1..Len(stack[c]) : stack[c][n] = Children(item)[k]

\* A finished call on a three-level pyramid that discarded a level-1 cell the ray
\* misses and descended into another, leaving some leaf untouched.
C19_Witness ==
    /\ TopIndex = 2
    /\ pc[1] \in Terminal
    /\ \E i, j \in 1..Len(popped[1]) :
          /\ popped[1][i][1] = 1
          /\ ~BoxHit(1, popped[1][i]).some
          /\ popped[1][j][1] = 1
          /\ BoxHit(1, popped[1][j]).some
          /\ FGe(BoxHit(1, popped[1][j]).t, F(0))
    /\ \E leaf \in Leaves(hm) : \A j \in 1..Len(popped[1]) : popped[1][j] # leaf

\* a and b are children of the same cell.
Siblings(a, b) ==
    /\ a[1] = b[1]
    /\ a[1] < TopIndex
    /\ a[2] \div 2 = b[2] \div 2
    /\ a[3] \div 2 = b[3] \div 2

\* C20: the children of a cell are popped in non-decreasing order of the horizontal
\* distance between the ray origin and their centres, and the cells of a popped
\* cell's subtree are popped before any item that was on the stack before them:
\* once an item outside the subtree is popped, none of the subtree is popped or
\* left on the stack, and subtree cells on the stack lie above all other items.
C20_NearestFirst ==
    \A c \in DOMAIN pc :
        /\ \A i, j \in 1..Len(popped[c]) :
               (i < j /\ Siblings(popped[c][i], popped[c][j])) =>
                   FLe(flat_dist2(hm, ray[c], popped[c][i]),
                       flat_dist2(hm, ray[c], popped[c][j]))
        /\ \A i, j \in 1..Len(popped[c]) :
               (i < j /\ ~Descendant(popped[c][i], popped[c][j])) =>
                   /\ \A k \in (j + 1)..Len(popped[c]) :
                          ~Descendant(popped[c][i], popped[c][k])
                   /\ \A n \in 1..Len(stack[c]) : ~Descendant(popped[c][i], stack[c][n])
        /\ \A i \in 1..Len(popped[c]) :
               \A m, n \in 1..Len(stack[c]) :
                   (Descendant(popped[c][i], stack[c][n])
                        /\ ~Descendant(popped[c][i], stack[c][m])) => m < n

\* A call that popped all four children of a cell, at three different distances
\* or more, the first of them not the child that was built last.
C20_Witness ==
    \E i \in 1..Len(popped[1]) :
        LET parent == popped[1][i]
            at(k) == CHOOSE j \in 1..Len(popped[1]) : popped[1][j] = Children(parent)[k]
        IN /\ parent[1] > 0
           /\ \A k \in 1..4 : \E j \in 1..Len(popped[1]) : popped[1][j] = Children(parent)[k]
           /\ Cardinality({flat_dist2(hm, ray[1], Children(parent)[k]) : k \in 1..4}) >= 3
           /\ \E k \in 1..3 : \A n \in 1..4 : at(k) <= at(n)

\* The mipmap lookup of an item, and the patch lookup of a level-0 item, are in range.
LookupsInRange(item) ==
    /\ item[1] + 1 \in 1..Len(hm.maximum_mipmaps)
    /\ lookup1x1Ok(hm.maximum_mipmaps[item[1] + 1], item[2], item[3])
    /\ item[1] = 0 => lookup1x1Ok(hm.bilinear_patches, item[2], item[3])

\* The four cells (level - 1, 2x + dx, 2y + dy), dx, dy in {0, 1}, of a cell.
FourChildren(item) ==
    {<<item[1] - 1, 2 * item[2] + dx, 2 * item[3] + dy>> : dx \in {0, 1}, dy \in {0, 1}}

\* C21: every item on the work stack is a valid cell of the pyramid.  A call starts
\* with (top, 0, 0) alone; a step that pops (level, x, y) leaves the rest of the stack
\* as it was and pushes either nothing or, for level > 0, exactly the four cells
\* (level - 1, 2x + dx, 2y + dy) with dx, dy in {0, 1}; so every stack item and every
\* popped item has 0 <= level <= top and 0 <= x, y < 2^(top - level), and its mipmap
\* lookup (and patch lookup at level 0) is in range.
C21_StackItemsValid ==
    /\ [](\A c \in DOMAIN pc :
            /\ (pc[c] = "Traversing" /\ popped[c] = <<>>) => stack[c] = <<<<TopIndex, 0, 0>>>>
            /\ \A i \in 1..Len(stack[c]) :
                   ValidItem(stack[c][i]) /\ LookupsInRange(stack[c][i])
            /\ \A i \in 1..Len(popped[c]) :
                   ValidItem(popped[c][i]) /\ LookupsInRange(popped[c][i]))
    /\ [][\A c \in DOMAIN pc :
              Len(popped'[c]) = Len(popped[c]) + 1 =>
                  LET item == popped'[c][Len(popped'[c])]
                      rest == SubSeq(stack[c], 1, Len(stack[c]) - 1)
                      pushed == SubSeq(stack'[c], Len(rest) + 1, Len(stack'[c]))
                  IN /\ stack[c] # <<>>
                     /\ item = stack[c][Len(stack[c])]
                     /\ SubSeq(stack'[c], 1, Len(rest)) = rest
                     /\ \/ pushed = <<>>
                        \/ /\ item[1] > 0
                           /\ Len(pushed) = 4
                           /\ {pushed[i] : i \in 1..4} = FourChildren(item)]_vars

\* A call on a three-level pyramid that descended into a level-1 cell away from the
\* origin: children of (1, 1, 1) are on the stack.
C21_Witness ==
    /\ TopIndex = 2
    /\ \E i \in 1..Len(popped[1]) : popped[1][i] = <<1, 1, 1>>
    /\ \E i \in 1..Len(stack[1]) : stack[1][i] \in FourChildren(<<1, 1, 1>>)

\* The hit point of a returned hit lies within the world-space rectangle of the
\* field: raster coordinates in [0, width] x [0, height].
InsideRectangle(c, t) ==
    LET xy == HitRaster(c, t)
    IN /\ FGe(xy[1], F(0)) /\ FLe(xy[1], F(raster.width))
       /\ FGe(xy[2], F(0)) /\ FLe(xy[2], F(raster.height))

\* C22: a leaf hit is returned as the answer only if its hit point lies within the
\* field's overall world-space bounding rectangle; a leaf hit outside the rectangle
\* does not end the traversal.
C22_HitInsideRectangle ==
    \A c \in DOMAIN pc :
        pc[c] = "LeafResolved" => InsideRectangle(c, result[c].t)

\* The entry and exit distances of a ray and a box: the largest of the three
\* per-axis entry distances and the smallest of the three exit distances.
EntryExit(bmin, bmax, r) ==
    LET slab == [k \in 1..3 |-> SlabInterval(r.origin[k], r.direction[k], bmin[k], bmax[k])]
    IN <<FMax(FMax(slab[1][1], slab[2][1]), slab[3][1]),
         FMin(FMin(slab[1][2], slab[2][2]), slab[3][2])>>

\* The origin of the ray is in the interior of the box.
OriginInside(bmin, bmax, r) ==
    \A k \in 1..3 : FLt(bmin[k], r.origin[k]) /\ FLt(r.origin[k], bmax[k])

\* The point lies on the surface of the box.
OnSurface(bmin, bmax, p) ==
    /\ \A k \in 1..3 : FLe(bmin[k], p[k]) /\ FLe(p[k], bmax[k])
    /\ \E k \in 1..3 : p[k] = bmin[k] \/ p[k] = bmax[k]

\* What C23 says of one box and one ray.
SlabMethod(bmin, bmax, r) ==
    LET hit == AabbIntersects(bmin, bmax, r)
        tmin == EntryExit(bmin, bmax, r)[1]
        tmax == EntryExit(bmin, bmax, r)[2]
    IN /\ hit.some <=> ~FGt(tmin, tmax)
       /\ hit.some => hit.t = (IF FLt(tmin, F(0)) THEN tmax ELSE tmin)
       /\ OriginInside(bmin, bmax, r) =>
              /\ hit = Some(tmax)
              /\ OnSurface(bmin, bmax, VAdd(r.origin, VScale(r.direction, tmax)))

\* C23: Aabb::intersects returns None exactly when tmin > tmax, tmin being the
\* largest of the three per-axis entry distances and tmax the smallest of the three
\* exit distances; otherwise Some with t = tmin when tmin >= 0 and t = tmax when
\* tmin < 0; for a ray whose origin is inside the box t is the exit distance and
\* origin + direction * t lies on the surface of the box.  Checked on the box of
\* every cell a call pops, and on the box and ray of the test.
C23_SlabMethod ==
    /\ \A c \in DOMAIN pc : \A i \in 1..Len(popped[c]) :
           LET box == CellAabb(hm, popped[c][i])
           IN SlabMethod(box.min, box.max, ray[c])
    /\ LET bmin == Vec3(F(0), F(0), F(0))
           bmax == Vec3(F(5), F(5), F(5))
           inside == [origin |-> Vec3(Q(5, 2), Q(5, 2), Q(5, 2)),
                      direction |-> Vec3(F(0), F(1), F(0))]
       IN /\ SlabMethod(bmin, bmax, inside)
          /\ AabbIntersects(bmin, bmax, inside) = Some(Q(5, 2))
          /\ VAdd(inside.origin, VScale(inside.direction, Q(5, 2)))
                 = Vec3(Q(5, 2), F(5), Q(5, 2))

\* One call popped a box that the ray starts inside, a box it enters from outside
\* and a box it misses.
C23_Witness ==
    LET boxes == {CellAabb(hm, popped[1][i]) : i \in 1..Len(popped[1])}
    IN /\ \E b \in boxes : OriginInside(b.min, b.max, ray[1])
       /\ \E b \in boxes : LET hit == AabbIntersects(b.min, b.max, ray[1])
                           IN hit.some /\ FGt(EntryExit(b.min, b.max, ray[1])[1], F(0))
       /\ \E b \in boxes : ~AabbIntersects(b.min, b.max, ray[1]).some

\* The candidates of a patch and a ray: for each root v of the quadratic, in the
\* order solutions returns them, the triple (v, u, t).
Candidates(patch, r) ==
    LET vs == Variables(patch, r)
        q == Quadratic(vs)
        vl == solutions(q[1], q[2], q[3])
    IN [i \in 1..Len(vl) |->
           LET u == compute_u(vl[i], vs)
           IN <<vl[i], u, compute_t(r, position(patch, u, vl[i]))>>]

\* The t of the candidates with v in [0, 1], u in [0, 1] and t > 0.
Passing(patch, r) ==
    LET cs == Candidates(patch, r)
    IN {cs[i][3] : i \in {j \in 1..Len(cs) :
                             /\ FGe(cs[j][1], F(0)) /\ FLe(cs[j][1], F(1))
                             /\ FGe(cs[j][2], F(0)) /\ FLe(cs[j][2], F(1))
                             /\ FGt(cs[j][3], F(0))}}

\* C25: BilinearPatch::intersects keeps only the candidate roots with v in [0, 1],
\* u in [0, 1] and t > 0 and returns the one with the smallest t; it returns None
\* exactly when no candidate passes these filters.  Checked on the patch of every
\* leaf a call solves.
C25_SmallestValidRoot ==
    \A c \in DOMAIN pc : \A i \in 1..Len(popped[c]) :
        TestedAsLeaf(c, popped[c][i]) =>
            LET patch == CellPatch(hm, popped[c][i])
                hit == BilinearPatchIntersects(patch, ray[c])
                ts == Passing(patch, ray[c])
            IN /\ hit.some <=> ts # {}
               /\ hit.some => (hit.t \in ts /\ \A t \in ts : FLe(hit.t, t))
               /\ hit.some => hit.t # INFINITY

\* A solved leaf with two candidates that pass the filters at different t, the one
\* returned first by solutions being the farther one.
C25_Witness ==
    \E i \in 1..Len(popped[1]) :
        /\ TestedAsLeaf(1, popped[1][i])
        /\ LET cs == Candidates(CellPatch(hm, popped[1][i]), ray[1])
               ts == Passing(CellPatch(hm, popped[1][i]), ray[1])
           IN /\ Cardinality(ts) = 2
              /\ FGt(cs[1][3], cs[2][3])

\* The cell of the given level above (or at) a level-0 cell.
AncestorAt(leaf, level) == <<level, leaf[2] \div Pow2(level), leaf[3] \div Pow2(level)>>

\* C26: no false negatives.  For a terrain with elevations >= 0, when the patch of a
\* level-0 cell has a valid hit (t > 0, u and v in [0, 1]) the box of that cell and
\* the box of each of its ancestors pass the box test with t >= 0, so the cell is
\* not pruned, and a call that has ended returned Some.
C26_NoFalseNegatives ==
    \A c \in DOMAIN pc :
        /\ \A leaf \in Leaves(hm) :
               LeafSolve(c, leaf).some =>
                   \A level \in 0..TopIndex : AabbPasses(hm, ray[c], AncestorAt(leaf, level))
        /\ (pc[c] \in Terminal /\ \E leaf \in Leaves(hm) : LeafSolve(c, leaf).some) =>
               result[c].some

\* A call on a three-level pyramid that returned Some for a ray that hits the patch
\* of one leaf only, after pruning cells and missing other leaves.
C26_Witness ==
    /\ TopIndex = 2
    /\ pc[1] = "LeafResolved"
    /\ Cardinality({leaf \in Leaves(hm) : LeafSolve(1, leaf).some}) = 1
    /\ \E i \in 1..Len(popped[1]) : ~AabbPasses(hm, ray[1], popped[1][i])
    /\ \E i \in 1..(Len(popped[1]) - 1) : TestedAsLeaf(1, popped[1][i])

RECURSIVE RunLoop(_, _, _)
RunLoop(h, r, stk) ==
    LET it == LoopIteration(h, r, stk)
    IN IF it.pc \in Terminal THEN it.result ELSE RunLoop(h, r, it.stack)

RunAlone(h, r) == RunLoop(h, r, InitialStack(h))

\* C10: under every interleaving of the steps of concurrent calls, each call
\* returns exactly the result it returns when run alone.
C10_AsIfAlone ==
    \A c \in DOMAIN pc : pc[c] \in Terminal => result[c] = RunAlone(hm, ray[c])

\* Two calls with different rays and different results that were both in the
\* middle of their loops at the same time.
C10_Witness ==
    /\ pc[1] = "Traversing"
    /\ pc[2] = "Traversing"
    /\ Len(popped[1]) >= 2
    /\ Len(popped[2]) >= 2
    /\ RunAlone(hm, ray[1]).some
    /\ RunAlone(hm, ray[1]) # RunAlone(hm, ray[2])
(***************************************************************************)
(* Claims about the tile scheduler (checked under SpecRender).             *)
(***************************************************************************)
\* ceil(a / b) for b >= 1.
ImagePixels == {<<x, y>> : x \in 0..(tiles.width - 1), y \in 0..(tiles.height - 1)}

CeilDiv(a, b) == (a + b - 1) \div b

AllDone == \A w \in DOMAIN pc : pc[w] = "Done"

\* How many values the surface has received at pixel p.
Writes(p) == Len(lookup1x1(surface, p[1], p[2]))

C27_EventuallyReturns == <>(main = "Returned" /\ AllDone /\ completed = Cardinality(ImagePixels))

Exact(q) == Round(q) = q

\* forward(x, y) rounds nowhere: the products and the sums are exact.
ExactForward(t, x, y) ==
    /\ Exact(FMul(x, t[3])) /\ Exact(FAdd(t[1], FMul(x, t[3])))
    /\ Exact(FMul(y, t[4])) /\ Exact(FAdd(t[2], FMul(y, t[4])))

\* inverse(x, y) rounds nowhere: the differences and the quotients are exact.
ExactInverse(t, x, y) ==
    /\ Exact(FSub(x, t[1])) /\ Exact(FDiv(FSub(x, t[1]), t[3]))
    /\ Exact(FSub(y, t[2])) /\ Exact(FDiv(FSub(y, t[2]), t[4]))

\* quadtree scales the pixel size by 2^level, quadtree(0, ..) is forward, the
\* methods of HeightMap are the same maps, and the transform of the tests sends
\* world (100, 100) to raster (100, 100).
LevelScaledSameMaps ==
    LET level == coords[1]
        x == coords[2]
        y == coords[3]
        scale == F(Pow2(level))
        tested == AffineTransformNew(F(-100), F(-100), F(2), F(2))
    IN /\ mapped["quadtree"] # <<>> =>
              /\ mapped["quadtree"] = forward(transform, Round(FMul(x, scale)), Round(FMul(y, scale)))
              /\ level = 0 => mapped["quadtree"] = forward(transform, x, y)
       /\ mapped["world_to_raster"] # <<>> =>
              mapped["world_to_raster"] = inverse(transform, x, y)
       /\ mapped["raster_to_world"] # <<>> =>
              /\ mapped["raster_to_world"] = quadtree(transform, level, x, y)
              /\ level = 0 => mapped["raster_to_world"] = forward(transform, x, y)
       /\ inverse(tested, F(-100), F(-100)) = <<F(0), F(0)>>
       /\ inverse(tested, F(100), F(-100)) = <<F(100), F(0)>>
       /\ inverse(tested, F(100), F(100)) = <<F(100), F(100)>>
       /\ world_to_raster_rounded(tested, F(-100), F(100)) = <<F(0), F(100)>>

Polynomial(v) ==
    FAdd(FAdd(FMul(quadratic[1], FMul(v, v)), FMul(quadratic[2], v)), quadratic[3])

\* C24: the degenerate cases of the solver are results, not errors: solutions(a, b, c)
\* returns no root when a = 0 and b = 0, exactly the one root -c/b of b*v + c = 0
\* when a = 0 and b # 0, and no root when b*b - 4*a*c < 0; every call returns a
\* Vec of at most two finite values.
C24_DegenerateCases ==
    solved # <<>> =>
        LET a == quadratic[1]
            b == quadratic[2]
            c == quadratic[3]
            returned == solved[1]
        IN /\ (a = F(0) /\ b = F(0)) => returned = <<>>
           /\ (a = F(0) /\ b # F(0)) =>
                  /\ Len(returned) = 1
                  /\ FMul(returned[1], b) = FNeg(c)
           /\ (a # F(0) /\ FLt(FSub(FMul(b, b), FMul(F(4), FMul(a, c))), F(0))) =>
                  returned = <<>>
           /\ Len(returned) <= 2
           /\ \A i \in 1..Len(returned) : IsFinite(returned[i])

\* The solver was called on a linear equation with a non-zero root.
C24_Witness ==
    /\ solved # <<>>
    /\ quadratic[1] = F(0)
    /\ quadratic[2] # F(0)
    /\ quadratic[3] # F(0)
    /\ Len(solved[1]) = 1

\* C29: every value returned by solutions(a, b, c) is a root of a*v*v + b*v + c = 0;
\* when the discriminant is zero the single value returned is the double root, at
\* which the derivative 2*a*v + b vanishes as well.
C29_ReturnsRoots ==
    solved # <<>> =>
        /\ \A i \in 1..Len(solved[1]) : Polynomial(solved[1][i]) = F(0)
        /\ (quadratic[1] # F(0)
              /\ Discriminant(quadratic[1], quadratic[2], quadratic[3]) = F(0)) =>
               /\ Len(solved[1]) = 1
               /\ FAdd(FMul(F(2), FMul(quadratic[1], solved[1][1])), quadratic[2]) = F(0)

(***************************************************************************)
(* Claims about Renderer::pixel (checked under SpecPixel).                 *)
(***************************************************************************)
\* The objects whose intersects returns a hit with t > 0 for the sample; a Some
\* whose t is +infinity is Intersection::none() (is_none()) and no hit.
HitObjects(sample) ==
    {i \in 1..Len(scene) :
        /\ scene[i].hit[sample].some
        /\ FGt(scene[i].hit[sample].t, F(0))
        /\ scene[i].hit[sample].t # INFINITY}

====
